---- MODULE Spec2Model ----
(***************************************************************************)
(* A model of ramfuck's expression subsystem (typed values, parser,        *)
(* optimizer) and of the command handlers of its command line.             *)
(*                                                                         *)
(* Values follow value.c: a value is a type tag and the bytes of the       *)
(* tagged field of the data union, least significant byte first.  Bytes of *)
(* the union that the code reads without having written them (a field      *)
(* wider than the one stored) are indeterminate; every operator that can   *)
(* read such bytes takes an environment u = [fill, trap]: fill is the      *)
(* content of the indeterminate bytes, trap tells whether an integer       *)
(* division by zero traps on this build.                                   *)
(***************************************************************************)
EXTENDS Integers, Sequences, FiniteSets, TLC

(***************************************************************************)
(* Bounds of the model.                                                    *)
(***************************************************************************)
\* Length of the byte strings drawn as handler operands is fixed by the
\* type; MaxSample bounds the magnitude of the sampled operand values.
MaxSample == 1
\* The longest of the token sequences that are enumerated exhaustively.
MaxTokens == 3
MaxAddr == 1
MaxRegions == 2

(***************************************************************************)
(* value.h: the ten scalar types, in the order of the value_ops table.     *)
(***************************************************************************)
S8 == "s8"
U8 == "u8"
S16 == "s16"
U16 == "u16"
S32 == "s32"
U32 == "u32"
S64 == "s64"
U64 == "u64"
F32 == "f32"
F64 == "f64"
\* The value 0 of enum value_type: no type.
VOID == "void"

ValueTypes == <<S8, U8, S16, U16, S32, U32, S64, U64, F32, F64>>
ScalarTypes == {ValueTypes[i] : i \in 1..Len(ValueTypes)}
IntTypes == {S8, U8, S16, U16, S32, U32, S64, U64}
FpuTypes == {F32, F64}
SignedTypes == {S8, S16, S32, S64}

\* type & INT, type & FPU
IsInt(t) == t \in IntTypes
IsFpu(t) == t \in FpuTypes
IsNumeric(t) == IsInt(t) \/ IsFpu(t)

value_type_sizeof(t) ==
    CASE t \in {S8, U8} -> 1
      [] t \in {S16, U16} -> 2
      [] t \in {S32, U32, F32} -> 4
      [] t \in {S64, U64, F64} -> 8
      [] OTHER -> 0

(***************************************************************************)
(* Byte strings: two's complement integers of any width, exact.            *)
(***************************************************************************)
Byte == 0..255

RECURSIVE Bytes(_, _)
\* The n low bytes of the two's complement form of the integer x.
Bytes(n, x) == IF n = 0 THEN <<>> ELSE <<x % 256>> \o Bytes(n - 1, x \div 256)

Rep(n, b) == [i \in 1..n |-> b]

IsNeg(bs) == bs[Len(bs)] >= 128
IsZeroBytes(bs) == \A i \in 1..Len(bs) : bs[i] = 0

RECURSIVE SNum(_)
\* The signed number the bytes spell (defined while it fits an integer).
SNum(bs) == IF Len(bs) = 1
            THEN (IF bs[1] >= 128 THEN bs[1] - 256 ELSE bs[1])
            ELSE bs[1] + 256 * SNum(Tail(bs))

\* Sign or zero extension, or truncation, of bs to n bytes.
Extend(bs, n, signed) ==
    [i \in 1..n |-> IF i <= Len(bs) THEN bs[i]
                    ELSE IF signed /\ IsNeg(bs) THEN 255 ELSE 0]

RECURSIVE AddC(_, _, _)
AddC(a, b, c) ==
    IF Len(a) = 0 THEN <<>>
    ELSE <<(a[1] + b[1] + c) % 256>> \o AddC(Tail(a), Tail(b), (a[1] + b[1] + c) \div 256)

AddBytes(a, b) == AddC(a, b, 0)
ComplBytes(a) == [i \in 1..Len(a) |-> 255 - a[i]]
NegBytes(a) == AddC(ComplBytes(a), Rep(Len(a), 0), 1)
SubBytes(a, b) == AddC(a, ComplBytes(b), 1)

RECURSIVE MulCol(_, _, _, _)
\* Sum of a[i] * b[k + 1 - i] over i in 1..j: column k of the product.
MulCol(a, b, k, j) ==
    IF j = 0 THEN 0 ELSE a[j] * b[k + 1 - j] + MulCol(a, b, k, j - 1)

RECURSIVE MulC(_, _, _, _)
MulC(a, b, k, c) ==
    IF k > Len(a) THEN <<>>
    ELSE LET column(s) == <<s % 256>> \o MulC(a, b, k + 1, s \div 256)
         IN  column(MulCol(a, b, k, k) + c)

MulBytes(a, b) == MulC(a, b, 1, 0)

RECURSIVE CmpFrom(_, _, _)
\* Unsigned comparison from byte i down: -1, 0 or 1.
CmpFrom(a, b, i) ==
    IF i = 0 THEN 0
    ELSE IF a[i] < b[i] THEN -1
    ELSE IF a[i] > b[i] THEN 1
    ELSE CmpFrom(a, b, i - 1)

UCmp(a, b) == CmpFrom(a, b, Len(a))
FlipSign(a) == [i \in 1..Len(a) |-> IF i = Len(a) THEN (a[i] + 128) % 256 ELSE a[i]]
SCmp(a, b) == UCmp(FlipSign(a), FlipSign(b))
Cmp(a, b, signed) == IF signed THEN SCmp(a, b) ELSE UCmp(a, b)

RECURSIVE BitOp(_, _, _, _)
\* Bitwise "and", "or", "xor" of two numbers of n bits.
BitOp(op, x, y, n) ==
    IF n = 0 THEN 0
    ELSE (CASE op = "and" -> (IF x % 2 = 1 /\ y % 2 = 1 THEN 1 ELSE 0)
            [] op = "or" -> (IF x % 2 = 1 \/ y % 2 = 1 THEN 1 ELSE 0)
            [] OTHER -> (IF x % 2 # y % 2 THEN 1 ELSE 0))
         + 2 * BitOp(op, x \div 2, y \div 2, n - 1)

BitBytes(op, a, b) == [i \in 1..Len(a) |-> BitOp(op, a[i], b[i], 8)]

RECURSIVE Shl1C(_, _)
Shl1C(a, c) ==
    IF Len(a) = 0 THEN <<>>
    ELSE <<(2 * a[1] + c) % 256>> \o Shl1C(Tail(a), (2 * a[1]) \div 256)

Pow2 == <<1, 2, 4, 8, 16, 32, 64, 128>>

\* a << n, for 0 <= n < 8 * Len(a).
ShlBytes(a, n) ==
    LET k == n \div 8
        p == Pow2[(n % 8) + 1]
        get(j) == IF j >= 1 THEN a[j] ELSE 0
    IN  [i \in 1..Len(a) |-> ((get(i - k) * p) % 256) + ((get(i - k - 1) * p) \div 256)]

\* a >> n, for 0 <= n < 8 * Len(a).  signed: the sign bit is shifted in
\* (an arithmetic shift, as gcc does).
ShrBytes(a, n, signed) ==
    LET k == n \div 8
        p == Pow2[(n % 8) + 1]
        ext == IF signed /\ IsNeg(a) THEN 255 ELSE 0
        get(j) == IF j <= Len(a) THEN a[j] ELSE ext
    IN  [i \in 1..Len(a) |-> (get(i + k) \div p) + ((get(i + k + 1) * (256 \div p)) % 256)]

BitAt(a, i) == (a[(i \div 8) + 1] \div Pow2[(i % 8) + 1]) % 2

RECURSIVE UDivBits(_, _, _, _, _, _)
\* Restoring division on the bits i down to lo of a: <<quotient, remainder>>
\* from the quotient q and the remainder rem of the bits above i.  rem and b
\* are one byte longer than a, so that the shifted remainder fits.
UDivBits(a, b, i, lo, q, rem) ==
    IF i < lo THEN <<q, rem>>
    ELSE LET step(r2) ==
                 IF UCmp(r2, b) >= 0
                 THEN UDivBits(a, b, i - 1, lo,
                               [q EXCEPT ![(i \div 8) + 1] = @ + Pow2[(i % 8) + 1]],
                               SubBytes(r2, b))
                 ELSE UDivBits(a, b, i - 1, lo, q, r2)
         IN  step(Shl1C(rem, BitAt(a, i)))

RECURSIVE UDivBytes(_, _, _, _)
\* The division byte by byte, from byte j of a down to its first byte; s is
\* the quotient and the remainder of the bytes above j.
UDivBytes(a, b, j, s) ==
    IF j = 0 THEN <<s[1], SubSeq(s[2], 1, Len(a))>>
    ELSE LET next(t) == IF Len(t[2]) = Len(b) THEN UDivBytes(a, b, j - 1, t) ELSE t
         IN  next(UDivBits(a, b, 8 * j - 1, 8 * j - 8, s[1], s[2]))

\* Unsigned quotient and remainder of byte strings, b not zero.
UDivMod(a, b) ==
    UDivBytes(a, b \o <<0>>, Len(a), <<Rep(Len(a), 0), Rep(Len(a) + 1, 0)>>)

Abs(a) == IF IsNeg(a) THEN NegBytes(a) ELSE a

\* C's signed division truncates toward zero; the remainder has the sign
\* of the dividend.
SDivMod(a, b) ==
    LET signed(r) ==
            << IF IsNeg(a) # IsNeg(b) THEN NegBytes(r[1]) ELSE r[1],
               IF IsNeg(a) THEN NegBytes(r[2]) ELSE r[2] >>
    IN  signed(UDivMod(Abs(a), Abs(b)))

(***************************************************************************)
(* Floating point: the content of an f32 or f64 field is a record          *)
(*   k = "q"    the rational n/d in lowest terms, d > 0                    *)
(*   k = "inf"  an infinity of sign n                                      *)
(*   k = "nan"  not a number                                               *)
(*   k = "tiny" a positive subnormal double (an f32 read as an f64 with    *)
(*              the upper half of the field zero)                          *)
(*   k = "sym"  a finite number the model does not track (magnitude above  *)
(*              2^23, or bits that decode to no sampled number)            *)
(* Rounding is not modelled: arithmetic on "q" is exact, and an f32 holds  *)
(* the same rationals as an f64.                                           *)
(***************************************************************************)
RECURSIVE Gcd(_, _)
Gcd(a, b) == IF b = 0 THEN a ELSE Gcd(b, a % b)

AbsInt(n) == IF n < 0 THEN 0 - n ELSE n
SignInt(n) == IF n < 0 THEN -1 ELSE IF n > 0 THEN 1 ELSE 0

FNan == [k |-> "nan", n |-> 0, d |-> 0]
FInf(s) == [k |-> "inf", n |-> s, d |-> 0]
FTiny == [k |-> "tiny", n |-> 1, d |-> 0]
FSym == [k |-> "sym", n |-> 0, d |-> 0]

\* The rational n/d, d # 0, in lowest terms.
FQ(n, d) ==
    LET g == Gcd(AbsInt(n), AbsInt(d))
    IN  [k |-> "q", n |-> (SignInt(d) * n) \div g, d |-> AbsInt(d) \div g]

FIsQ(x) == x.k = "q"
FSign(x) == IF x.k \in {"q", "inf"} THEN SignInt(x.n) ELSE IF x.k = "tiny" THEN 1 ELSE 0

FNeg(x) == IF x.k \in {"q", "inf"} THEN [x EXCEPT !.n = 0 - x.n] ELSE x

\* x + y of C doubles.
FAdd(x, y) ==
    CASE x.k = "nan" \/ y.k = "nan" -> FNan
      [] FIsQ(x) /\ FIsQ(y) -> FQ(x.n * y.d + y.n * x.d, x.d * y.d)
      [] x.k = "inf" /\ y.k = "inf" -> IF x.n = y.n THEN x ELSE FNan
      [] x.k = "inf" -> x
      [] y.k = "inf" -> y
      [] x.k = "tiny" /\ FIsQ(y) -> IF y.n = 0 THEN x ELSE y
      [] FIsQ(x) /\ y.k = "tiny" -> IF x.n = 0 THEN y ELSE x
      [] x.k = "tiny" /\ y.k = "tiny" -> FTiny
      [] OTHER -> FSym

FSub(x, y) == FAdd(x, FNeg(y))

FMul(x, y) ==
    CASE x.k = "nan" \/ y.k = "nan" -> FNan
      [] FIsQ(x) /\ FIsQ(y) -> FQ(x.n * y.n, x.d * y.d)
      [] x.k = "inf" \/ y.k = "inf" ->
            IF FSign(x) * FSign(y) = 0 THEN FNan ELSE FInf(FSign(x) * FSign(y))
      [] (FIsQ(x) /\ x.n = 0) \/ (FIsQ(y) /\ y.n = 0) -> FQ(0, 1)
      [] OTHER -> FSym

\* x / y of C doubles: a zero divisor gives an infinity or a NaN, no trap.
FDiv(x, y) ==
    CASE x.k = "nan" \/ y.k = "nan" -> FNan
      [] FIsQ(x) /\ FIsQ(y) ->
            IF y.n # 0 THEN FQ(x.n * y.d, x.d * y.n)
            ELSE IF x.n = 0 THEN FNan ELSE FInf(SignInt(x.n))
      [] x.k = "inf" -> IF y.k = "inf" THEN FNan
                        ELSE FInf(x.n * (IF FSign(y) < 0 THEN -1 ELSE 1))
      [] y.k = "inf" -> FQ(0, 1)
      [] FIsQ(x) /\ y.k = "tiny" -> IF x.n = 0 THEN x ELSE FInf(SignInt(x.n))
      [] OTHER -> FSym

\* Rank of a value on the number line, for the comparisons that involve
\* a value that is no rational.
FRank(x) == CASE x.k = "inf" -> 3 * x.n
              [] x.k = "tiny" -> 1
              [] x.k = "q" -> 2 * SignInt(x.n)
              [] OTHER -> 0

\* -1, 0, 1 as x < y, x = y, x > y; 2 when unordered (a NaN).
FCmp(x, y) ==
    CASE x.k = "nan" \/ y.k = "nan" -> 2
      [] FIsQ(x) /\ FIsQ(y) -> SignInt(x.n * y.d - y.n * x.d)
      [] OTHER -> SignInt(FRank(x) - FRank(y))

(***************************************************************************)
(* The bits of a floating point field (IEEE 754, least significant byte    *)
(* first), for the reads of one union field through another.               *)
(***************************************************************************)
RECURSIVE FNorm(_, _, _)
\* <<n', d', e>> with n/d = (n'/d') * 2^e and 1 <= n'/d' < 2, for n, d > 0.
FNorm(n, d, e) ==
    IF n >= 2 * d THEN FNorm(n, 2 * d, e + 1)
    ELSE IF n < d THEN FNorm(2 * n, d, e - 1)
    ELSE <<n, d, e>>

\* The fraction bits of n/d in [1, 2): floor((n - d) * 2^bits / d), w bytes.
FMant(n, d, bits, w) == UDivMod(ShlBytes(Bytes(w, n - d), bits), Bytes(w, d))[1]

\* The bits of a normal f64: sign, exponent ex, fraction mant.
F64Bits(neg, mant, ex) ==
    [i \in 1..8 |->
        IF i <= 6 THEN mant[i]
        ELSE IF i = 7 THEN mant[7] + (ex % 16) * 16
        ELSE (ex \div 16) + (IF neg THEN 128 ELSE 0)]

F64Normal(neg, m) == F64Bits(neg, FMant(m[1], m[2], 52, 8), m[3] + 1023)

F64Bytes(x, u) ==
    CASE x.k = "q" /\ x.n = 0 -> Rep(8, 0)
      [] x.k = "q" /\ x.n # 0 -> F64Normal(x.n < 0, FNorm(AbsInt(x.n), x.d, 0))
      [] x.k = "inf" -> <<0, 0, 0, 0, 0, 0, 240, IF x.n < 0 THEN 255 ELSE 127>>
      [] x.k = "nan" -> <<0, 0, 0, 0, 0, 0, 248, 127>>
      [] OTHER -> Rep(8, u.fill)

\* The bits of a normal f32.
F32Bits(neg, mant, ex) ==
    [i \in 1..4 |->
        IF i <= 2 THEN mant[i]
        ELSE IF i = 3 THEN mant[3] + (ex % 2) * 128
        ELSE (ex \div 2) + (IF neg THEN 128 ELSE 0)]

F32Normal(neg, m) == F32Bits(neg, FMant(m[1], m[2], 23, 4), m[3] + 127)

F32Bytes(x, u) ==
    CASE x.k = "q" /\ x.n = 0 -> Rep(4, 0)
      [] x.k = "q" /\ x.n # 0 -> F32Normal(x.n < 0, FNorm(AbsInt(x.n), x.d, 0))
      [] x.k = "inf" -> <<0, 0, 128, IF x.n < 0 THEN 255 ELSE 127>>
      [] x.k = "nan" -> <<0, 0, 192, 127>>
      [] OTHER -> Rep(4, u.fill)

\* The rationals whose bits the model decodes back to a number.
FloatSamples == {FQ(n, d) : n \in -4..4, d \in {1, 2, 4}}

\* An environment for the code that reads no indeterminate byte.
NoEnv == [fill |-> 0, trap |-> FALSE]

FEncode(q, w) == IF w = 8 THEN F64Bytes(q, NoEnv) ELSE F32Bytes(q, NoEnv)
FSampled(S) == IF S = {} THEN FSym ELSE CHOOSE q \in S : TRUE

\* The number of the w bytes bs, from its exponent field ex (top: all
\* ones) and from whether its fraction is zero.
FDecodeFields(bs, w, ex, top, frac0) ==
    CASE ex = top -> (IF frac0 THEN FInf(IF bs[w] >= 128 THEN -1 ELSE 1) ELSE FNan)
      [] ex = 0 /\ frac0 -> FQ(0, 1)
      [] ex = 0 /\ ~frac0 -> (IF bs[w] < 128 THEN FTiny ELSE FSym)
      [] OTHER -> FSampled({q \in FloatSamples : FEncode(q, w) = bs})

\* The number that the bytes bs spell as a float of Len(bs) bytes.
FDecode(bs) ==
    FDecodeFields(bs, Len(bs),
                  IF Len(bs) = 8 THEN (bs[8] % 128) * 16 + (bs[7] \div 16)
                                 ELSE (bs[4] % 128) * 2 + (bs[3] \div 128),
                  IF Len(bs) = 8 THEN 2047 ELSE 255,
                  /\ \A i \in 1..(Len(bs) - 2) : bs[i] = 0
                  /\ bs[Len(bs) - 1] % (IF Len(bs) = 8 THEN 16 ELSE 128) = 0)

(***************************************************************************)
(* value.h: struct value, a type tag and a union of the ten fields.        *)
(***************************************************************************)
Value(t, d) == [type |-> t, data |-> d]
\* An out parameter that no handler has written.
NoValue == Value(VOID, <<>>)

\* The eight bytes of the union of v: the bytes of the field that was
\* stored, then bytes that nothing has written.
UnionBytes(v, u) ==
    LET padded(own) == [i \in 1..8 |-> IF i <= Len(own) THEN own[i] ELSE u.fill]
    IN  padded(IF IsInt(v.type) THEN v.data
               ELSE IF v.type = F32 THEN F32Bytes(v.data, u)
               ELSE F64Bytes(v.data, u))

\* v->data.t: the field t of the union of v, whatever v->type is.
data_as(v, t, u) ==
    IF v.type = t THEN v.data
    ELSE IF IsInt(t) THEN SubSeq(UnionBytes(v, u), 1, value_type_sizeof(t))
    ELSE FDecode(SubSeq(UnionBytes(v, u), 1, value_type_sizeof(t)))

(***************************************************************************)
(* The result of a handler: ret is its return value (1 success, 0 error,   *)
(* -1 when the process was killed by a trap before the handler returned),  *)
(* out the value it stored through its out parameter.                      *)
(***************************************************************************)
Ok(t, d) == [ret |-> 1, trap |-> FALSE, out |-> Value(t, d)]
Failed == [ret |-> 0, trap |-> FALSE, out |-> NoValue]
Trapped == [ret |-> -1, trap |-> TRUE, out |-> NoValue]

\* The outcomes of an operation whose behaviour C leaves undefined and
\* that the hardware may trap on: the trap, or indeterminate bytes.
Undefined(t, u) ==
    IF u.trap THEN Trapped ELSE Ok(t, Rep(value_type_sizeof(t), u.fill))

BoolBytes(n, b) == Bytes(n, IF b THEN 1 ELSE 0)

\* (double)x for an integer field x.
IntToFloat(bs, signed) ==
    LET convert(w) ==
            IF Extend(Extend(w, 3, TRUE), 9, TRUE) = w
            THEN FQ(SNum(Extend(w, 4, TRUE)), 1)
            ELSE [FSym EXCEPT !.n = IF signed /\ IsNeg(bs) THEN -1 ELSE 1]
    IN  convert(Extend(bs, 9, signed))

\* (t)x for a floating point field x: truncation toward zero.  A value
\* that t cannot represent is undefined: the build stores the wrapped
\* number, or (u.trap) indeterminate bytes.
FloatToInt(x, t, u) ==
    LET n == value_type_sizeof(t)
        tr == IF x.n >= 0 THEN x.n \div x.d ELSE 0 - ((0 - x.n) \div x.d)
        fits == IF t \in SignedTypes
                THEN n >= 4 \/ (tr >= 0 - Pow2[8] * (IF n = 1 THEN 1 ELSE 256)
                                /\ tr < Pow2[8] * (IF n = 1 THEN 1 ELSE 256))
                ELSE tr >= 0 /\ (n >= 4 \/ tr < 256 * (IF n = 1 THEN 1 ELSE 256))
    IN  CASE x.k = "q" /\ fits -> Bytes(n, tr)
          [] x.k = "q" /\ ~fits -> IF u.trap THEN Rep(n, u.fill) ELSE Bytes(n, tr)
          [] x.k = "tiny" -> Rep(n, 0)
          [] OTHER -> IF u.trap THEN Rep(n, u.fill) ELSE Rep(n, 0)

\* A conversion that never extends the sign of an integer field.
cast_to_zero_extended(v, t, u) ==
    Ok(t, CASE IsInt(v.type) /\ IsInt(t) -> Extend(v.data, value_type_sizeof(t), FALSE)
            [] IsInt(v.type) /\ IsFpu(t) -> IntToFloat(v.data, v.type \in SignedTypes)
            [] IsFpu(v.type) /\ IsInt(t) -> FloatToInt(v.data, t, u)
            [] OTHER -> v.data)

\* X_to_Y for X = v.type and Y = t: value_init_Y(out, this->data.X), the
\* C conversion from the field's type to Y.
cast_to(v, t, u) ==
    Ok(t, CASE IsInt(v.type) /\ IsInt(t) ->
                 Extend(v.data, value_type_sizeof(t), v.type \in SignedTypes)
            [] IsInt(v.type) /\ IsFpu(t) -> IntToFloat(v.data, v.type \in SignedTypes)
            [] IsFpu(v.type) /\ IsInt(t) -> FloatToInt(v.data, t, u)
            [] OTHER -> v.data)

value_is_zero(v, u) ==
    IsZeroBytes(SubSeq(UnionBytes(v, u), 1, value_type_sizeof(v.type)))

(***************************************************************************)
(* The handlers of S32, U32, S64 and U64 (T is the type of the row): a and *)
(* b are the fields op1->data.T and op2->data.T that the handler reads,    *)
(* and the value it stores is tagged T.                                    *)
(***************************************************************************)
T_neg(T, a) == Ok(T, NegBytes(a))
T_not(T, a) == Ok(T, BoolBytes(value_type_sizeof(T), IsZeroBytes(a)))
T_compl(T, a) == Ok(T, ComplBytes(a))
T_add(T, a, b) == Ok(T, AddBytes(a, b))
T_sub(T, a, b) == Ok(T, SubBytes(a, b))
T_mul(T, a, b) == Ok(T, MulBytes(a, b))

\* The quotient overflows: the most negative number divided by -1.
DivOverflow(T, a, b) ==
    /\ T \in SignedTypes
    /\ IsZeroBytes(ComplBytes(b))
    /\ a = NegBytes(a) /\ ~IsZeroBytes(a)

\* out = op1 / op2 with no test of op2: a zero divisor is undefined.
T_div(T, a, b, u) ==
    IF IsZeroBytes(b) \/ DivOverflow(T, a, b) THEN Undefined(T, u)
    ELSE Ok(T, IF T \in SignedTypes THEN SDivMod(a, b)[1] ELSE UDivMod(a, b)[1])

\* out = op1 % op2 with no test of op2.
T_mod(T, a, b, u) ==
    IF IsZeroBytes(b) \/ DivOverflow(T, a, b) THEN Undefined(T, u)
    ELSE Ok(T, IF T \in SignedTypes THEN SDivMod(a, b)[2] ELSE UDivMod(a, b)[2])

\* T_and, T_xor, T_or: op is "and", "xor" or "or".
T_bit(T, op, a, b) == Ok(T, BitBytes(op, a, b))

\* A shift count outside 0 .. width-1 is undefined: indeterminate bytes.
ShiftInRange(T, b) == UCmp(b, Bytes(value_type_sizeof(T), 8 * value_type_sizeof(T))) < 0

T_shl(T, a, b, u) ==
    IF ShiftInRange(T, b) THEN Ok(T, ShlBytes(a, b[1]))
    ELSE Ok(T, Rep(value_type_sizeof(T), u.fill))

T_shr(T, a, b, u) ==
    IF ShiftInRange(T, b) THEN Ok(T, ShrBytes(a, b[1], T \in SignedTypes))
    ELSE Ok(T, Rep(value_type_sizeof(T), u.fill))

\* The C comparison c in {-1, 0, 1, 2 (unordered)} under the operator op.
RelHolds(op, c) ==
    CASE op = "eq" -> c = 0
      [] op = "neq" -> c # 0
      [] op = "lt" -> c = -1
      [] op = "gt" -> c = 1
      [] op = "le" -> c \in {-1, 0}
      [] OTHER -> c \in {0, 1}

\* T_eq, T_neq, T_lt, T_gt, T_le, T_ge: out is an s32 holding 0 or 1.
\* A comparison that tags its result with the type of the operands.
T_rel_tagged(T, op, a, b) ==
    Ok(T, BoolBytes(value_type_sizeof(T), RelHolds(op, Cmp(a, b, T \in SignedTypes))))

T_rel(T, op, a, b) == Ok(S32, BoolBytes(4, RelHolds(op, Cmp(a, b, T \in SignedTypes))))

(***************************************************************************)
(* The handlers of F64: x and y are the fields op1->data.f64 and           *)
(* op2->data.f64.                                                          *)
(***************************************************************************)
f64_neg(x) == Ok(F64, FNeg(x))
\* out is an s32: !x is 1 exactly for a zero.
f64_not(x) == Ok(S32, BoolBytes(4, x.k = "q" /\ x.n = 0))
f64_add(x, y) == Ok(F64, FAdd(x, y))
f64_sub(x, y) == Ok(F64, FSub(x, y))
f64_mul(x, y) == Ok(F64, FMul(x, y))
\* No test of op2: the quotient by zero is an infinity or a NaN.
f64_div(x, y) == Ok(F64, FDiv(x, y))
\* f64_eq, f64_neq, f64_lt, f64_gt, f64_le, f64_ge.
f64_rel(op, x, y) == Ok(S32, BoolBytes(4, RelHolds(op, FCmp(x, y))))

UnaryOps == {"neg", "not", "compl"}
ArithOps == {"add", "sub", "mul", "div", "mod"}
BitOps == {"and", "xor", "or"}
ShiftOps == {"shl", "shr"}
RelOps == {"eq", "neq", "lt", "gt", "le", "ge"}
BinaryOps == ArithOps \cup BitOps \cup ShiftOps \cup RelOps

RECURSIVE value_ops_unary(_, _, _)
RECURSIVE value_ops_binary(_, _, _, _)

\* The handlers that report an error.
dummy_nop(op1, op2, u) == Failed
dummy_unop(op1, u) == Failed

\* dummy_neg, dummy_not, dummy_compl: op1 is cast to s32 into out and the
\* handler of out's type is run on out.
dummy_unary(op, op1, u) == value_ops_unary(op, cast_to(op1, S32, u).out, u)

\* dummy_add .. dummy_ge: op1 is cast to s32 into out and the handler of
\* out's type is run on out and op2 as it is.
dummy_binary(op, op1, op2, u) == value_ops_binary(op, cast_to(op1, S32, u).out, op2, u)

\* f32_neg, f32_not: op1 is cast to f64 into out.
f32_unary(op, op1, u) == value_ops_unary(op, cast_to(op1, F64, u).out, u)

\* f32_add .. f32_div, f32_eq .. f32_ge: op1 is cast to f64 into out and the
\* f64 handler is run on out and op2 as it is.
f32_binary(op, op1, op2, u) == value_ops_binary(op, cast_to(op1, F64, u).out, op2, u)

\* The rows of S32, U32, S64 and U64 of the table, on the fields read.
T_ops_unary(T, op, a) ==
    CASE op = "neg" -> T_neg(T, a)
      [] op = "not" -> T_not(T, a)
      [] OTHER -> T_compl(T, a)

T_ops_binary(T, op, a, b, u) ==
    CASE op = "add" -> T_add(T, a, b)
      [] op = "sub" -> T_sub(T, a, b)
      [] op = "mul" -> T_mul(T, a, b)
      [] op = "div" -> T_div(T, a, b, u)
      [] op = "mod" -> T_mod(T, a, b, u)
      [] op \in BitOps -> T_bit(T, op, a, b)
      [] op = "shl" -> T_shl(T, a, b, u)
      [] op = "shr" -> T_shr(T, a, b, u)
      [] OTHER -> T_rel(T, op, a, b)

\* The handlers of the row of F64 that compute, on the fields read.
f64_ops_binary(op, x, y) ==
    CASE op = "add" -> f64_add(x, y)
      [] op = "sub" -> f64_sub(x, y)
      [] op = "mul" -> f64_mul(x, y)
      [] op = "div" -> f64_div(x, y)
      [] OTHER -> f64_rel(op, x, y)

\* value_ops(op1)->op(op1, out) for the unary handlers.
value_ops_unary(op, op1, u) ==
    CASE op1.type \in {S8, U8, S16, U16} -> dummy_unary(op, op1, u)
      [] op1.type \in {S32, U32, S64, U64} ->
            T_ops_unary(op1.type, op, data_as(op1, op1.type, u))
      [] op1.type = F32 -> IF op = "compl" THEN dummy_unop(op1, u)
                           ELSE f32_unary(op, op1, u)
      [] OTHER -> (CASE op = "neg" -> f64_neg(data_as(op1, F64, u))
                     [] op = "not" -> f64_not(data_as(op1, F64, u))
                     [] OTHER -> dummy_unop(op1, u))

\* value_ops(op1)->op(op1, op2, out) for the binary handlers.
value_ops_binary(op, op1, op2, u) ==
    CASE op1.type \in {S8, U8, S16, U16} -> dummy_binary(op, op1, op2, u)
      [] op1.type \in {S32, U32, S64, U64} ->
            T_ops_binary(op1.type, op, data_as(op1, op1.type, u),
                         data_as(op2, op1.type, u), u)
      [] op1.type = F32 ->
            (CASE op = "mod" -> dummy_binary(op, op1, op2, u)
               [] op \in BitOps \cup ShiftOps -> dummy_nop(op1, op2, u)
               [] OTHER -> f32_binary(op, op1, op2, u))
      [] OTHER ->
            (CASE op = "mod" -> dummy_binary(op, op1, op2, u)
               [] op \in BitOps \cup ShiftOps -> dummy_nop(op1, op2, u)
               [] OTHER -> f64_ops_binary(op, data_as(op1, F64, u), data_as(op2, F64, u)))

(***************************************************************************)
(* Type names.  A string of the program is a sequence of characters.       *)
(***************************************************************************)
TypeName(t) ==
    CASE t = S8 -> <<"s", "8">>
      [] t = S16 -> <<"s", "1", "6">>
      [] t = S32 -> <<"s", "3", "2">>
      [] t = S64 -> <<"s", "6", "4">>
      [] t = U8 -> <<"u", "8">>
      [] t = U16 -> <<"u", "1", "6">>
      [] t = U32 -> <<"u", "3", "2">>
      [] t = U64 -> <<"u", "6", "4">>
      [] t = F32 -> <<"f", "3", "2">>
      [] OTHER -> <<"f", "6", "4">>

\* !memcmp(str, name, len) for a string literal name: the first len bytes
\* of str and of the literal (its terminating NUL included) agree.  str
\* holds no NUL among its first len bytes.
memcmp_eq(str, name, len) ==
    /\ len <= Len(name)
    /\ \A i \in 1..len : str[i] = name[i]

\* The order of the comparisons of value_type_from_substring.
FromStringOrder == <<S8, S16, S32, S64, U8, U16, U32, U64, F32, F64>>

value_type_from_substring(str, len) ==
    LET hits == {i \in 1..Len(FromStringOrder) :
                    memcmp_eq(str, TypeName(FromStringOrder[i]), len)}
    IN  IF hits = {} THEN VOID
        ELSE FromStringOrder[CHOOSE i \in hits : \A j \in hits : i <= j]

value_type_from_string(str) == value_type_from_substring(str, Len(str))

(***************************************************************************)
(* lex.h: tokens.  The input of the parser is the sequence of tokens that  *)
(* the lexer produces from the input string; a LEX_ERROR entry stands for  *)
(* a place of the string where the lexer fails.                            *)
(***************************************************************************)
Tok(t) == [type |-> t, name |-> <<>>, value |-> NoValue]
Ident(name) == [type |-> "LEX_IDENTIFIER", name |-> name, value |-> NoValue]
\* An integer literal: the token carries an intmax (eight bytes).
IntTok(n) == [type |-> "LEX_INTEGER", name |-> <<>>, value |-> Value(S64, Bytes(8, n))]
UintTok(n) == [type |-> "LEX_UINTEGER", name |-> <<>>, value |-> Value(U64, Bytes(8, n))]
FpTok(n, d) == [type |-> "LEX_FLOATING_POINT", name |-> <<>>, value |-> Value(F64, FQ(n, d))]
EOL == Tok("LEX_EOL")

\* lexer(&in, &token): the next token of in; ok is its return value.
lexer(in) ==
    IF in = <<>> THEN [ok |-> TRUE, token |-> EOL, in |-> <<>>]
    ELSE IF Head(in).type = "LEX_ERROR" THEN [ok |-> FALSE, token |-> EOL, in |-> Tail(in)]
    ELSE [ok |-> TRUE, token |-> Head(in), in |-> Tail(in)]

lex_to_ast_type(t) ==
    [LEX_ADD |-> "AST_ADD", LEX_SUB |-> "AST_SUB", LEX_MUL |-> "AST_MUL",
     LEX_DIV |-> "AST_DIV", LEX_MOD |-> "AST_MOD", LEX_AND |-> "AST_AND",
     LEX_XOR |-> "AST_XOR", LEX_OR |-> "AST_OR", LEX_SHL |-> "AST_SHL",
     LEX_SHR |-> "AST_SHR", LEX_EQ |-> "AST_EQ", LEX_NEQ |-> "AST_NEQ",
     LEX_LT |-> "AST_LT", LEX_GT |-> "AST_GT", LEX_LE |-> "AST_LE",
     LEX_GE |-> "AST_GE", LEX_AND_COND |-> "AST_AND_COND",
     LEX_OR_COND |-> "AST_OR_COND", LEX_NOT |-> "AST_NOT",
     LEX_COMPL |-> "AST_COMPL"][t]

(***************************************************************************)
(* value.h: the types the parser gives to literals and to truth values,    *)
(* and the higher of two types.                                            *)
(***************************************************************************)
SINT == S32
UINT == U32
DOUBLE == F64

\* Rank of a type: floating point over integer, then the wider, then
\* unsigned over signed.
TypeRank(t) ==
    (IF IsFpu(t) THEN 100 ELSE 0) + 2 * value_type_sizeof(t)
    + (IF IsInt(t) /\ t \notin SignedTypes THEN 1 ELSE 0)

HIGHER_TYPE(t1, t2) == IF TypeRank(t1) >= TypeRank(t2) THEN t1 ELSE t2

(***************************************************************************)
(* The symbol table handed to the parser, when there is one: a variable of *)
(* each type, named v followed by the type name, and its value.            *)
(***************************************************************************)
VarName(t) == <<"v">> \o TypeName(t)

VarValue(t) ==
    IF IsInt(t) THEN Value(t, Bytes(value_type_sizeof(t), 3)) ELSE Value(t, FQ(3, 2))

\* symbol_table_nlookup(symtab, name, len): the type of the symbol, or VOID.
symbol_table_nlookup(name) ==
    IF \E t \in ScalarTypes : VarName(t) = name
    THEN CHOOSE t \in ScalarTypes : VarName(t) = name
    ELSE VOID

(***************************************************************************)
(* ast.c: nodes.  Null is the null pointer.                                *)
(***************************************************************************)
Null == [node_type |-> "NULL"]
ast_value_new(vt, value) == [node_type |-> "AST_VALUE", value_type |-> vt, value |-> value]
ast_var_new(name, vt) == [node_type |-> "AST_VAR", value_type |-> vt, name |-> name]
ast_cast_new(vt, child) == [node_type |-> "AST_CAST", value_type |-> vt, child |-> child]
ast_unop_new(type, vt, child) == [node_type |-> type, value_type |-> vt, child |-> child]
\* A binary node that takes the type of its left operand.
ast_binop_new_left(type, vt, left, right) ==
    [node_type |-> type, value_type |-> left.value_type, left |-> left, right |-> right]

ast_binop_new(type, vt, left, right) ==
    [node_type |-> type, value_type |-> vt, left |-> left, right |-> right]

(***************************************************************************)
(* parse.c.  The parser state p holds the rest of the input, the symbol    *)
(* being processed, the last accepted symbol and the error count.  A       *)
(* production returns the state it leaves and the root it built.           *)
(***************************************************************************)
parse_error(p) == [p EXCEPT !.errors = @ + 1]

\* On a lexer failure: an error, and the input is flushed to its end.
next_symbol(p) ==
    LET l == lexer(p.in)
    IN  IF l.ok THEN [p |-> [p EXCEPT !.in = l.in, !.symbol = l.token], ok |-> TRUE]
        ELSE [p |-> [parse_error(p) EXCEPT !.in = <<>>, !.symbol = EOL], ok |-> FALSE]

accept(p, sym) ==
    IF p.symbol.type # sym THEN [p |-> p, ok |-> FALSE]
    ELSE next_symbol([p EXCEPT !.accepted = p.symbol])

\* accept(p, s1) || accept(p, s2) || ... for the symbols of syms, none of
\* them LEX_EOL: after an accept that failed in the lexer the symbol is
\* LEX_EOL, and the accepts that follow it fail.
accept_any(p, syms) ==
    IF p.symbol.type \in syms THEN accept(p, p.symbol.type) ELSE [p |-> p, ok |-> FALSE]

expect(p, sym) ==
    LET a == accept(p, sym)
    IN  IF a.ok THEN a ELSE [p |-> parse_error(a.p), ok |-> FALSE]

Res(p, root) == [p |-> p, root |-> root]

RECURSIVE expression(_)
RECURSIVE conditional_loop(_, _, _)
RECURSIVE or_loop(_, _, _)
RECURSIVE xor_loop(_, _, _)
RECURSIVE and_loop(_, _, _)
RECURSIVE equality_expression(_)
RECURSIVE relational_expression(_)
RECURSIVE equality_if(_, _, _)
RECURSIVE relational_if(_, _, _)
RECURSIVE shift_loop(_, _, _)
RECURSIVE addsub_loop(_, _, _)
RECURSIVE muldiv_loop(_, _, _)
RECURSIVE cast_expression(_)
RECURSIVE unary_expression(_)
RECURSIVE factor(_)
RECURSIVE muldiv_expression(_)
RECURSIVE addsub_expression(_)
RECURSIVE shift_expression(_)
RECURSIVE and_expression(_)
RECURSIVE xor_expression(_)
RECURSIVE or_expression(_)
RECURSIVE conditional_expression(_)

factor_failed(q) == Res(parse_error(q), Null)

\* a is the outcome of the accept of the symbol of type t.
factor_accepted(p, t, a) ==
    LET close(r) == [root |-> r.root, p |-> expect(r.p, "LEX_RIGHT_PARENTHESE").p]
    IN  IF ~a.ok THEN factor_failed(a.p)
        ELSE CASE t = "LEX_IDENTIFIER" ->
                    IF p.symtab /\ symbol_table_nlookup(a.p.accepted.name) # VOID
                    THEN Res(a.p, ast_var_new(a.p.accepted.name,
                                              symbol_table_nlookup(a.p.accepted.name)))
                    ELSE factor_failed(a.p)
               [] t = "LEX_INTEGER" ->
                    Res(a.p, ast_value_new(SINT, cast_to(a.p.accepted.value, SINT, NoEnv).out))
               [] t = "LEX_UINTEGER" ->
                    Res(a.p, ast_value_new(UINT, cast_to(a.p.accepted.value, UINT, NoEnv).out))
               [] t = "LEX_FLOATING_POINT" ->
                    Res(a.p, ast_value_new(DOUBLE, a.p.accepted.value))
               [] OTHER -> close(expression(a.p))

factor(p) ==
    IF p.symbol.type \in {"LEX_IDENTIFIER", "LEX_INTEGER", "LEX_UINTEGER",
                          "LEX_FLOATING_POINT", "LEX_LEFT_PARENTHESE"}
    THEN factor_accepted(p, p.symbol.type, accept(p, p.symbol.type))
    ELSE factor_failed(p)

\* The node of the unary operator type on the operand c.
unary_operator(type, c) ==
    IF c.root = Null THEN c
    ELSE IF type \in {"AST_ADD", "AST_SUB"}
    THEN (IF IsNumeric(c.root.value_type)
          THEN Res(c.p, ast_unop_new(IF type = "AST_ADD" THEN "AST_UADD" ELSE "AST_USUB",
                                     c.root.value_type, c.root))
          ELSE Res(parse_error(c.p), Null))
    ELSE (IF IsInt(c.root.value_type)
          THEN Res(c.p, ast_unop_new(type, c.root.value_type, c.root))
          ELSE Res(parse_error(c.p), Null))

unary_operand(a) ==
    IF ~a.ok THEN factor(a.p)
    ELSE unary_operator(lex_to_ast_type(a.p.accepted.type), cast_expression(a.p))

unary_expression(p) ==
    unary_operand(accept_any(p, {"LEX_ADD", "LEX_SUB", "LEX_NOT", "LEX_COMPL"}))

\* The operand of a cast: q is the state after the accepts of "(", the type
\* and ")", or has ok FALSE when no cast was accepted.
cast_operand(type, q) ==
    LET cast(c) == IF c.root # Null THEN Res(c.p, ast_cast_new(type, c.root)) ELSE c
    IN  IF q.ok THEN cast(cast_expression(q.p)) ELSE unary_expression(q.p)

\* The lexer is copied to look two tokens ahead: "(" type ")" is a cast.
cast_expression(p) ==
    LET is_cast(l1, l2) ==
            /\ p.symbol.type = "LEX_LEFT_PARENTHESE"
            /\ l1.ok /\ l2.ok
            /\ l1.token.type = "LEX_IDENTIFIER"
            /\ l2.token.type = "LEX_RIGHT_PARENTHESE"
            /\ Len(l1.token.name) < 15
            /\ value_type_from_string(l1.token.name) # VOID
        \* accept "(", the identifier and ")": the state where the accepts stop
        second(a2) == IF ~a2.ok THEN a2 ELSE accept(a2.p, "LEX_RIGHT_PARENTHESE")
        accepts(a1) == IF ~a1.ok THEN a1 ELSE second(accept(a1.p, "LEX_IDENTIFIER"))
        ahead(l1) ==
            IF is_cast(l1, lexer(l1.in)) THEN accepts(accept(p, "LEX_LEFT_PARENTHESE"))
            ELSE [p |-> p, ok |-> FALSE]
    IN  cast_operand(value_type_from_string(lexer(p.in).token.name), ahead(lexer(p.in)))

\* The while loop of muldiv_expression: % wants integers, * and / numbers.
\* r is the operand parsed after the operator type (the first operand when
\* type is "none"); it is joined to left, then the loop goes on while an
\* operator is accepted.
muldiv_loop(p, left, type) ==
    LET next(s, a) ==
            IF ~a.ok THEN Res(a.p, s.root)
            ELSE muldiv_loop(a.p, s.root, lex_to_ast_type(a.p.accepted.type))
        join(r) ==
            IF r.root = Null THEN r
            ELSE IF type = "none" THEN next(r, accept_any(r.p, {"LEX_MUL", "LEX_DIV", "LEX_MOD"}))
            ELSE IF (IF type = "AST_MOD"
                  THEN IsInt(left.value_type) /\ IsInt(r.root.value_type)
                  ELSE IsNumeric(left.value_type) /\ IsNumeric(r.root.value_type))
            THEN next(Res(r.p, ast_binop_new(type, HIGHER_TYPE(left.value_type, r.root.value_type), left, r.root)),
                      accept_any(r.p, {"LEX_MUL", "LEX_DIV", "LEX_MOD"}))
            ELSE Res(parse_error(r.p), Null)
    IN  join(cast_expression(p))

\* A level of * / % that accepts no operator.
muldiv_none(p) == cast_expression(p)

muldiv_expression(p) == muldiv_loop(p, Null, "none")

\* The while loop of addsub_expression.
\* r is the operand parsed after the operator type (the first operand when
\* type is "none"); it is joined to left, then the loop goes on while an
\* operator is accepted.
addsub_loop(p, left, type) ==
    LET next(s, a) ==
            IF ~a.ok THEN Res(a.p, s.root)
            ELSE addsub_loop(a.p, s.root, lex_to_ast_type(a.p.accepted.type))
        join(r) ==
            IF r.root = Null THEN r
            ELSE IF type = "none" THEN next(r, accept_any(r.p, {"LEX_ADD", "LEX_SUB"}))
            ELSE IF IsNumeric(left.value_type) /\ IsNumeric(r.root.value_type)
            THEN next(Res(r.p, ast_binop_new(type, HIGHER_TYPE(left.value_type, r.root.value_type), left, r.root)),
                      accept_any(r.p, {"LEX_ADD", "LEX_SUB"}))
            ELSE Res(parse_error(r.p), Null)
    IN  join(muldiv_expression(p))

addsub_expression(p) == addsub_loop(p, Null, "none")

\* The while loop of shift_expression: the node has the type of the left operand.
\* r is the operand parsed after the operator type (the first operand when
\* type is "none"); it is joined to left, then the loop goes on while an
\* operator is accepted.
shift_loop(p, left, type) ==
    LET next(s, a) ==
            IF ~a.ok THEN Res(a.p, s.root)
            ELSE shift_loop(a.p, s.root, lex_to_ast_type(a.p.accepted.type))
        join(r) ==
            IF r.root = Null THEN r
            ELSE IF type = "none" THEN next(r, accept_any(r.p, {"LEX_SHL", "LEX_SHR"}))
            ELSE IF IsInt(left.value_type) /\ IsInt(r.root.value_type)
            THEN next(Res(r.p, ast_binop_new(type, left.value_type, left, r.root)),
                      accept_any(r.p, {"LEX_SHL", "LEX_SHR"}))
            ELSE Res(parse_error(r.p), Null)
    IN  join(addsub_expression(p))

shift_expression(p) == shift_loop(p, Null, "none")

\* One relational operator at most (an if, no loop); the node is a SINT.
\* r is the first operand when type is "none", the second one after the
\* operator type.
relational_if(p, left, type) ==
    LET right(s, a) ==
            IF ~a.ok THEN Res(a.p, s.root)
            ELSE relational_if(a.p, s.root, lex_to_ast_type(a.p.accepted.type))
        join(r) ==
            IF r.root = Null THEN r
            ELSE IF type = "none" THEN right(r, accept_any(r.p, {"LEX_LT", "LEX_GT", "LEX_LE", "LEX_GE"}))
            ELSE IF IsNumeric(left.value_type) /\ IsNumeric(r.root.value_type)
            THEN Res(r.p, ast_binop_new(type, SINT, left, r.root))
            ELSE Res(parse_error(r.p), Null)
    IN  join(shift_expression(p))

relational_expression(p) == relational_if(p, Null, "none")

\* An equality_expression that takes an operator after every operand.
equality_chain(p, left, type) ==
    LET right(s, a) ==
            IF ~a.ok THEN Res(a.p, s.root)
            ELSE equality_if(a.p, s.root, lex_to_ast_type(a.p.accepted.type))
        join(r) ==
            IF r.root = Null THEN r
            ELSE IF type = "none" THEN right(r, accept_any(r.p, {"LEX_EQ", "LEX_NEQ"}))
            ELSE IF IsNumeric(left.value_type) /\ IsNumeric(r.root.value_type)
            THEN right(Res(r.p, ast_binop_new(type, SINT, left, r.root)),
                       accept_any(r.p, {"LEX_EQ", "LEX_NEQ"}))
            ELSE Res(parse_error(r.p), Null)
    IN  join(relational_expression(p))

\* One equality operator at most (an if, no loop); the node is a SINT.
\* r is the first operand when type is "none", the second one after the
\* operator type.
equality_if(p, left, type) ==
    LET right(s, a) ==
            IF ~a.ok THEN Res(a.p, s.root)
            ELSE equality_if(a.p, s.root, lex_to_ast_type(a.p.accepted.type))
        join(r) ==
            IF r.root = Null THEN r
            ELSE IF type = "none" THEN right(r, accept_any(r.p, {"LEX_EQ", "LEX_NEQ"}))
            ELSE IF IsNumeric(left.value_type) /\ IsNumeric(r.root.value_type)
            THEN Res(r.p, ast_binop_new(type, SINT, left, r.root))
            ELSE Res(parse_error(r.p), Null)
    IN  join(relational_expression(p))

equality_expression(p) == equality_if(p, Null, "none")

\* The while loop of and_expression.
\* r is the operand parsed after the operator type (the first operand when
\* type is "none"); it is joined to left, then the loop goes on while an
\* operator is accepted.
and_loop(p, left, type) ==
    LET next(s, a) ==
            IF ~a.ok THEN Res(a.p, s.root)
            ELSE and_loop(a.p, s.root, lex_to_ast_type(a.p.accepted.type))
        join(r) ==
            IF r.root = Null THEN r
            ELSE IF type = "none" THEN next(r, accept_any(r.p, {"LEX_AND"}))
            ELSE IF IsInt(left.value_type) /\ IsInt(r.root.value_type)
            THEN next(Res(r.p, ast_binop_new(type, HIGHER_TYPE(left.value_type, r.root.value_type), left, r.root)),
                      accept_any(r.p, {"LEX_AND"}))
            ELSE Res(parse_error(r.p), Null)
    IN  join(equality_expression(p))

and_expression(p) == and_loop(p, Null, "none")

\* The while loop of xor_expression.
\* r is the operand parsed after the operator type (the first operand when
\* type is "none"); it is joined to left, then the loop goes on while an
\* operator is accepted.
xor_loop(p, left, type) ==
    LET next(s, a) ==
            IF ~a.ok THEN Res(a.p, s.root)
            ELSE xor_loop(a.p, s.root, lex_to_ast_type(a.p.accepted.type))
        join(r) ==
            IF r.root = Null THEN r
            ELSE IF type = "none" THEN next(r, accept_any(r.p, {"LEX_XOR"}))
            ELSE IF IsInt(left.value_type) /\ IsInt(r.root.value_type)
            THEN next(Res(r.p, ast_binop_new(type, HIGHER_TYPE(left.value_type, r.root.value_type), left, r.root)),
                      accept_any(r.p, {"LEX_XOR"}))
            ELSE Res(parse_error(r.p), Null)
    IN  join(and_expression(p))

xor_expression(p) == xor_loop(p, Null, "none")

\* The while loop of or_expression.
\* r is the operand parsed after the operator type (the first operand when
\* type is "none"); it is joined to left, then the loop goes on while an
\* operator is accepted.
or_loop(p, left, type) ==
    LET next(s, a) ==
            IF ~a.ok THEN Res(a.p, s.root)
            ELSE or_loop(a.p, s.root, lex_to_ast_type(a.p.accepted.type))
        join(r) ==
            IF r.root = Null THEN r
            ELSE IF type = "none" THEN next(r, accept_any(r.p, {"LEX_OR"}))
            ELSE IF IsInt(left.value_type) /\ IsInt(r.root.value_type)
            THEN next(Res(r.p, ast_binop_new(type, HIGHER_TYPE(left.value_type, r.root.value_type), left, r.root)),
                      accept_any(r.p, {"LEX_OR"}))
            ELSE Res(parse_error(r.p), Null)
    IN  join(xor_expression(p))

or_expression(p) == or_loop(p, Null, "none")

\* A conditional_expression whose nodes have the type of the left operand.
conditional_loop_typed(p, left, type) ==
    LET next(s, a) ==
            IF ~a.ok THEN Res(a.p, s.root)
            ELSE conditional_loop(a.p, s.root, lex_to_ast_type(a.p.accepted.type))
        join(r) ==
            IF r.root = Null THEN r
            ELSE IF type = "none" THEN next(r, accept_any(r.p, {"LEX_AND_COND", "LEX_OR_COND"}))
            ELSE next(Res(r.p, ast_binop_new(type, left.value_type, left, r.root)),
                      accept_any(r.p, {"LEX_AND_COND", "LEX_OR_COND"}))
    IN  join(or_expression(p))

\* The while loop of conditional_expression: && and || on one level, no
\* test of the operand types; the node is a SINT.
\* r is the operand parsed after the operator type (the first operand when
\* type is "none"); it is joined to left, then the loop goes on while an
\* operator is accepted.
conditional_loop(p, left, type) ==
    LET next(s, a) ==
            IF ~a.ok THEN Res(a.p, s.root)
            ELSE conditional_loop(a.p, s.root, lex_to_ast_type(a.p.accepted.type))
        join(r) ==
            IF r.root = Null THEN r
            ELSE IF type = "none" THEN next(r, accept_any(r.p, {"LEX_AND_COND", "LEX_OR_COND"}))
            ELSE next(Res(r.p, ast_binop_new(type, SINT, left, r.root)),
                      accept_any(r.p, {"LEX_AND_COND", "LEX_OR_COND"}))
    IN  join(or_expression(p))

conditional_expression(p) == conditional_loop(p, Null, "none")

expression(p) ==
    IF p.symbol.type = "LEX_EOL" THEN Res(p, Null) ELSE conditional_expression(p)

\* do { next_symbol(&p); } while (p.symbol->type != LEX_EOL)
RECURSIVE flush(_)
flush(p) ==
    LET n == next_symbol(p).p IN IF n.symbol.type = "LEX_EOL" THEN n ELSE flush(n)

\* parse_expression(in, symtab, quiet, pout): symtab tells whether a symbol
\* table is handed over; errors is the return value, pout the pointer left
\* in *pout, freed whether the tree it points to was deleted.  With errors
\* the tree is deleted and *pout keeps its value.
parse_expression(in, symtab) ==
    LET result(root, p1) ==
            [errors |-> p1.errors,
             pout |-> root,
             freed |-> p1.errors > 0 /\ root # Null]
        finish(e) ==
            result(e.root, IF e.p.symbol.type # "LEX_EOL" THEN flush(parse_error(e.p))
                           ELSE IF e.root = Null THEN parse_error(e.p)
                           ELSE e.p)
    IN  finish(expression(next_symbol([in |-> in, symtab |-> symtab, symbol |-> EOL,
                                       accepted |-> EOL, errors |-> 0]).p))

(***************************************************************************)
(* eval.c: ast_evaluate, post-order.  The result has the shape of a        *)
(* handler's result: ret is the return value of ast_evaluate.              *)
(***************************************************************************)
AstUnaryOp(t) ==
    CASE t = "AST_USUB" -> "neg" [] t = "AST_NOT" -> "not" [] OTHER -> "compl"

AstBinaryOp(t) ==
    [AST_ADD |-> "add", AST_SUB |-> "sub", AST_MUL |-> "mul", AST_DIV |-> "div",
     AST_MOD |-> "mod", AST_AND |-> "and", AST_XOR |-> "xor", AST_OR |-> "or",
     AST_SHL |-> "shl", AST_SHR |-> "shr", AST_EQ |-> "eq", AST_NEQ |-> "neq",
     AST_LT |-> "lt", AST_GT |-> "gt", AST_LE |-> "le", AST_GE |-> "ge"][t]

UnaryNodes == {"AST_UADD", "AST_USUB", "AST_NOT", "AST_COMPL"}
CondNodes == {"AST_AND_COND", "AST_OR_COND"}
RelNodes == {"AST_EQ", "AST_NEQ", "AST_LT", "AST_GT", "AST_LE", "AST_GE"}

RECURSIVE ast_evaluate(_, _)

\* c, l and r are the outcomes of the evaluation of the children.
ast_cast_evaluate(this, c, u) ==
    IF c.ret # 1 THEN c ELSE cast_to(c.out, this.value_type, u)

ast_unop_evaluate(this, c, u) ==
    IF c.ret # 1 \/ this.node_type = "AST_UADD" THEN c
    ELSE value_ops_unary(AstUnaryOp(this.node_type), c.out, u)

\* && and ||: the right child is evaluated only when the left one does not
\* settle the outcome.
ast_cond_right(r, u) ==
    IF r.ret # 1 THEN r ELSE Ok(S32, BoolBytes(4, ~value_is_zero(r.out, u)))

ast_cond_evaluate(this, l, u) ==
    IF l.ret # 1 THEN l
    ELSE IF value_is_zero(l.out, u) = (this.node_type = "AST_AND_COND")
    THEN Ok(S32, BoolBytes(4, this.node_type = "AST_OR_COND"))
    ELSE ast_cond_right(ast_evaluate(this.right, u), u)

\* Operands of different types are cast to the type of the node, those of
\* a comparison to the higher of their types.
ast_binop_operand(v, mixed, to, u) == IF mixed THEN cast_to(v, to, u).out ELSE v

ast_binop_apply(this, l, r, mixed, to, u) ==
    value_ops_binary(AstBinaryOp(this.node_type), ast_binop_operand(l.out, mixed, to, u),
                     ast_binop_operand(r.out, mixed, to, u), u)

ast_binop_evaluate(this, l, r, u) ==
    IF l.ret # 1 THEN l
    ELSE IF r.ret # 1 THEN r
    ELSE ast_binop_apply(this, l, r, l.out.type # r.out.type,
                         IF this.node_type \in RelNodes
                         THEN HIGHER_TYPE(l.out.type, r.out.type)
                         ELSE this.value_type, u)

\* ast_evaluate_funcs[ast->node_type](ast, value)
ast_evaluate(ast, u) ==
    CASE ast.node_type = "AST_VALUE" -> Ok(ast.value.type, ast.value.data)
      [] ast.node_type = "AST_VAR" -> Ok(ast.value_type, VarValue(ast.value_type).data)
      [] ast.node_type = "AST_CAST" -> ast_cast_evaluate(ast, ast_evaluate(ast.child, u), u)
      [] ast.node_type \in UnaryNodes ->
            ast_unop_evaluate(ast, ast_evaluate(ast.child, u), u)
      [] ast.node_type \in CondNodes ->
            ast_cond_evaluate(ast, ast_evaluate(ast.left, u), u)
      [] OTHER -> ast_binop_evaluate(ast, ast_evaluate(ast.left, u),
                                     ast_evaluate(ast.right, u), u)

RECURSIVE ast_is_constant(_)
\* All the leaves of the tree are literals.
ast_is_constant(ast) ==
    CASE ast.node_type = "AST_VALUE" -> TRUE
      [] ast.node_type = "AST_VAR" -> FALSE
      [] ast.node_type \in UnaryNodes \cup {"AST_CAST"} -> ast_is_constant(ast.child)
      [] OTHER -> ast_is_constant(ast.left) /\ ast_is_constant(ast.right)

(***************************************************************************)
(* opt.c: ast_optimize builds a new tree; a node whose children are        *)
(* constant and whose evaluation succeeds is replaced by a literal node    *)
(* made from the value (ast_value_new: the node has the type of the value).*)
(***************************************************************************)
RECURSIVE ast_optimize(_, _)

ast_var_optimize(this) == ast_var_new(this.name, this.value_type)
ast_value_optimize(this) == ast_value_new(this.value_type, this.value)

\* The new node ast is replaced by a literal when its children are constant
\* and its evaluation e succeeds.
ast_fold(ast, constant, e) ==
    IF constant /\ e.ret = 1 THEN ast_value_new(e.out.type, e.out) ELSE ast

ast_unop_fold(ast, u) == ast_fold(ast, ast_is_constant(ast.child), ast_evaluate(ast, u))

ast_unop_optimize(this, u) ==
    ast_unop_fold(ast_unop_new(this.node_type, this.value_type,
                               ast_optimize(this.child, u)), u)

ast_binop_fold(ast, u) ==
    ast_fold(ast, ast_is_constant(ast.left) /\ ast_is_constant(ast.right),
             ast_evaluate(ast, u))

ast_binop_optimize(this, u) ==
    ast_binop_fold(ast_binop_new(this.node_type, this.value_type,
                                 ast_optimize(this.left, u), ast_optimize(this.right, u)), u)

\* ast_optimize_funcs[ast->node_type](ast)
ast_optimize(ast, u) ==
    CASE ast.node_type = "AST_VALUE" -> ast_value_optimize(ast)
      [] ast.node_type = "AST_VAR" -> ast_var_optimize(ast)
      [] ast.node_type \in UnaryNodes \cup {"AST_CAST"} -> ast_unop_optimize(ast, u)
      [] OTHER -> ast_binop_optimize(ast, u)

\* The evaluations that ast_optimize makes are those of the nodes whose
\* children are constant: one of them is killed by a trap.
ast_fold_traps(ast, constant, u) == constant /\ ast_evaluate(ast, u).trap

ast_unop_fold_traps(ast, u) == ast_fold_traps(ast, ast_is_constant(ast.child), u)

ast_binop_fold_traps(ast, u) ==
    ast_fold_traps(ast, ast_is_constant(ast.left) /\ ast_is_constant(ast.right), u)

RECURSIVE ast_optimize_traps(_, _)
ast_optimize_traps(ast, u) ==
    CASE ast.node_type \in {"AST_VALUE", "AST_VAR"} -> FALSE
      [] ast.node_type \in UnaryNodes \cup {"AST_CAST"} ->
            \/ ast_optimize_traps(ast.child, u)
            \/ ast_unop_fold_traps(ast_unop_new(ast.node_type, ast.value_type,
                                                ast_optimize(ast.child, u)), u)
      [] OTHER ->
            \/ ast_optimize_traps(ast.left, u)
            \/ ast_optimize_traps(ast.right, u)
            \/ ast_binop_fold_traps(ast_binop_new(ast.node_type, ast.value_type,
                                                  ast_optimize(ast.left, u),
                                                  ast_optimize(ast.right, u)), u)

(***************************************************************************)
(* The nodes as objects.  A heap is the sequence of the nodes that malloc  *)
(* has given, a node is known by its place in it: node is the node as the  *)
(* trees above have it with its children left out, kids the places of its  *)
(* children, frees the number of times it has been given to free.          *)
(***************************************************************************)
IsUnary(t) == t \in UnaryNodes \cup {"AST_CAST"}
IsLeaf(t) == t \in {"AST_VALUE", "AST_VAR"}

\* malloc and the initialization of the node: the heap and the new node.
Allocated(heap, node, kids) ==
    [heap |-> Append(heap, [node |-> node, kids |-> kids, frees |-> 0]),
     root |-> Len(heap) + 1]

\* The node of a tree without its children.
NodeOf(ast) ==
    IF IsLeaf(ast.node_type) THEN ast
    ELSE [node_type |-> ast.node_type, value_type |-> ast.value_type]

RECURSIVE ast_store(_, _)
\* The tree ast as the parser builds it, the children before their parent.
ast_store(heap, ast) ==
    IF IsLeaf(ast.node_type) THEN Allocated(heap, ast, <<>>)
    ELSE IF IsUnary(ast.node_type)
    THEN LET c == ast_store(heap, ast.child)
         IN  Allocated(c.heap, NodeOf(ast), <<c.root>>)
    ELSE LET l == ast_store(heap, ast.left)
             r == ast_store(l.heap, ast.right)
         IN  Allocated(r.heap, NodeOf(ast), <<l.root, r.root>>)

RECURSIVE ast_load(_, _)
\* The tree whose root is the node this of the heap.
ast_load(heap, this) ==
    IF IsLeaf(heap[this].node.node_type) THEN heap[this].node
    ELSE IF IsUnary(heap[this].node.node_type)
    THEN ast_unop_new(heap[this].node.node_type, heap[this].node.value_type,
                      ast_load(heap, heap[this].kids[1]))
    ELSE ast_binop_new(heap[this].node.node_type, heap[this].node.value_type,
                       ast_load(heap, heap[this].kids[1]),
                       ast_load(heap, heap[this].kids[2]))

\* free(this)
free(heap, this) == [heap EXCEPT ![this].frees = @ + 1]

RECURSIVE ast_delete(_, _)
\* ast_leaf_delete, ast_unary_delete and ast_binary_delete: the children
\* are deleted, then the node is freed.
ast_delete(heap, this) ==
    IF Len(heap[this].kids) = 0 THEN free(heap, this)
    ELSE IF Len(heap[this].kids) = 1
    THEN free(ast_delete(heap, heap[this].kids[1]), this)
    ELSE free(ast_delete(ast_delete(heap, heap[this].kids[1]), heap[this].kids[2]), this)

\* An ast_value_optimize that returns the node it was given.
ast_value_optimize_shared(heap, this) == [heap |-> heap, root |-> this]

\* ast_value_optimize and ast_var_optimize: a new leaf with the content of this.
ast_leaf_optimize_in(heap, this) == Allocated(heap, heap[this].node, <<>>)

\* The new node a is deleted and a literal made of the value when the
\* children are constant and the evaluation e of the node succeeds.
ast_fold_in(a, constant, e) ==
    IF constant /\ e.ret = 1
    THEN Allocated(ast_delete(a.heap, a.root), ast_value_new(e.out.type, e.out), <<>>)
    ELSE a

RECURSIVE ast_optimize_in(_, _, _)
ast_unop_optimize_in(heap, this, u) ==
    LET c == ast_optimize_in(heap, heap[this].kids[1], u)
        a == Allocated(c.heap, heap[this].node, <<c.root>>)
    IN  ast_fold_in(a, ast_is_constant(ast_load(c.heap, c.root)),
                    ast_evaluate(ast_load(a.heap, a.root), u))

ast_binop_optimize_in(heap, this, u) ==
    LET l == ast_optimize_in(heap, heap[this].kids[1], u)
        r == ast_optimize_in(l.heap, heap[this].kids[2], u)
        a == Allocated(r.heap, heap[this].node, <<l.root, r.root>>)
    IN  ast_fold_in(a, ast_is_constant(ast_load(r.heap, l.root))
                         /\ ast_is_constant(ast_load(r.heap, r.root)),
                    ast_evaluate(ast_load(a.heap, a.root), u))

\* ast_optimize on the node this of the heap: the heap it leaves and the
\* root of the tree it returns.
ast_optimize_in(heap, this, u) ==
    IF IsLeaf(heap[this].node.node_type) THEN ast_leaf_optimize_in(heap, this)
    ELSE IF Len(heap[this].kids) = 1 THEN ast_unop_optimize_in(heap, this, u)
    ELSE ast_binop_optimize_in(heap, this, u)

\* do_explain: ast is optimized, then ast_delete(ast_opt) and ast_delete(ast).
\* parsed is the heap with the tree, opt the outcome of ast_optimize.
OptimizedIn(parsed, opt) ==
    [parsed |-> parsed, opt |-> opt,
     deleted |-> ast_delete(ast_delete(opt.heap, opt.root), parsed.root)]

OptimizeIn(parsed, u) == OptimizedIn(parsed, ast_optimize_in(parsed.heap, parsed.root, u))

(***************************************************************************)
(* The expression subsystem as a state machine: call records the last      *)
(* call of one of its entry points, with its arguments and its result.     *)
(***************************************************************************)
VARIABLES call, bits, target, breaks, stopped, addr_size, hits, running, mem, rc, last

\* The variables of the session, that the expression subsystem leaves alone.
session == <<bits, target, breaks, stopped, addr_size, hits, running, mem, rc, last>>
vars == <<call, bits, target, breaks, stopped, addr_size, hits, running, mem, rc, last>>

\* The outcomes of undefined behaviour: the content of bytes that nothing
\* has written, and whether an undefined arithmetic operation traps.
Envs == [fill : {0, 255}, trap : BOOLEAN]

\* The operand values of type T that the handlers are applied to.
Samples(T) ==
    IF IsInt(T)
    THEN {Value(T, Bytes(value_type_sizeof(T), n)) : n \in (0 - MaxSample)..MaxSample}
    ELSE {Value(T, FQ(n, d)) : n \in (0 - MaxSample)..MaxSample, d \in {1, 2}}

InitExpr == call = [fn |-> "none"]

\* The bytes an integer operand of a cast is made of: the byte i of n is
\* 0x00, 0x80 or 0xff (0x00 or 0xff at four places of an 8 byte integer).
CastBytes(n, i) == IF n = 8 /\ i \in {3, 5, 6, 7} THEN {0, 255} ELSE {0, 128, 255}
CastSamples(T) ==
    {Value(T, d) : d \in {f \in [1..value_type_sizeof(T) -> {0, 128, 255}] :
                             \A i \in 1..value_type_sizeof(T) :
                                f[i] \in CastBytes(value_type_sizeof(T), i)}}

\* value_ops(op1)->cast_to_T(op1, out) for two integer types, and the
\* cast of the result to the type of op1.
CallCast ==
    /\ call.fn = "none"
    /\ \E A \in IntTypes, T \in IntTypes :
         \E op1 \in CastSamples(A) :
            call' = [fn |-> "cast", op1 |-> op1, to |-> T,
                     res |-> cast_to(op1, T, NoEnv),
                     back |-> cast_to(cast_to(op1, T, NoEnv).out, A, NoEnv)]
    /\ UNCHANGED session

\* value_ops(op1)->op(op1, out) for a unary operator op.
CallUnary ==
    /\ call.fn = "none"
    /\ \E op \in UnaryOps, T \in ScalarTypes, u \in Envs :
         \E op1 \in Samples(T) :
            call' = [fn |-> "unary", op |-> op, op1 |-> op1, u |-> u,
                     res |-> value_ops_unary(op, op1, u)]
    /\ UNCHANGED session

\* value_ops(op1)->op(op1, op2, out) for a binary operator op and two
\* operands of one type.
CallBinary ==
    /\ call.fn = "none"
    /\ \E op \in BinaryOps, T \in ScalarTypes, u \in Envs :
         \E op1 \in Samples(T), op2 \in Samples(T) :
            call' = [fn |-> "binary", op |-> op, op1 |-> op1, op2 |-> op2, u |-> u,
                     res |-> value_ops_binary(op, op1, op2, u)]
    /\ UNCHANGED session

(***************************************************************************)
(* The inputs of the parser.                                               *)
(***************************************************************************)
LP == Tok("LEX_LEFT_PARENTHESE")
RP == Tok("LEX_RIGHT_PARENTHESE")

BinaryTokens ==
    {"LEX_ADD", "LEX_SUB", "LEX_MUL", "LEX_DIV", "LEX_MOD", "LEX_AND", "LEX_XOR",
     "LEX_OR", "LEX_SHL", "LEX_SHR", "LEX_EQ", "LEX_NEQ", "LEX_LT", "LEX_GT",
     "LEX_LE", "LEX_GE", "LEX_AND_COND", "LEX_OR_COND"}
UnaryTokens == {"LEX_ADD", "LEX_SUB", "LEX_NOT", "LEX_COMPL"}

\* Identifiers that are no type name: proper prefixes of type names, a type
\* name with a character more, names of variables, an unknown name.
OtherNames ==
    {<<"s">>, <<"u">>, <<"f">>, <<"s", "1">>, <<"u", "1">>, <<"f", "6">>,
     <<"s", "8", "x">>, <<"x">>, VarName(S8), VarName(F64)}
Names == {TypeName(t) : t \in ScalarTypes} \cup OtherNames

Alphabet ==
    {IntTok(1), UintTok(2), FpTok(1, 2), Ident(VarName(S8)), Ident(VarName(F64)),
     Tok("LEX_ADD"), Tok("LEX_LT"), Tok("LEX_NOT"), Tok("LEX_ERROR")}

RECURSIVE SeqsUpTo(_, _)
\* The sequences of at most n elements of S.
SeqsUpTo(S, n) ==
    IF n = 0 THEN {<<>>}
    ELSE LET shorter == SeqsUpTo(S, n - 1)
         IN  shorter \cup {Append(q, x) : q \in shorter, x \in S}

ShortInputs == SeqsUpTo(Alphabet, MaxTokens)
\* a op b for variables a and b of every pair of types.
VarBinary(A, op, B) == <<Ident(VarName(A)), Tok(op), Ident(VarName(B))>>
BinaryInputs ==
    {VarBinary(A, op, B) : A \in ScalarTypes, B \in ScalarTypes, op \in BinaryTokens}
UnaryInputs ==
    {<<Tok(op), Ident(VarName(T))>> : op \in UnaryTokens, T \in ScalarTypes}
\* (X) and (X) 1 for every identifier X.
CastInputs ==
    {<<LP, Ident(n), RP>> : n \in Names} \cup {<<LP, Ident(n), RP, IntTok(1)>> : n \in Names}
\* Parentheses around a literal, closed or not.
ParenInputs ==
    {<<LP, IntTok(1), RP>>, <<LP, IntTok(1)>>, <<LP, FpTok(1, 2), RP, Tok("LEX_ADD"), IntTok(1)>>,
     <<LP>>, <<RP>>, <<IntTok(1), RP>>}
\* 1 / 0
\* 1 + 2 * 3
SumOfProduct == <<IntTok(1), Tok("LEX_ADD"), IntTok(2), Tok("LEX_MUL"), IntTok(3)>>
ExampleInputs == {<<IntTok(1), Tok("LEX_DIV"), IntTok(0)>>, SumOfProduct}

\* a && 1 / n and a || 1 / n.
CondInput(a, op, n) == <<IntTok(a), Tok(op), IntTok(1), Tok("LEX_DIV"), IntTok(n)>>
CondInputs ==
    {CondInput(a, op, n) : a \in {0, 1}, op \in {"LEX_AND_COND", "LEX_OR_COND"}, n \in {0, 1}}

\* The operators of each level of the grammar that has binary operators.
Levels ==
    {{"LEX_AND_COND", "LEX_OR_COND"}, {"LEX_OR"}, {"LEX_XOR"}, {"LEX_AND"},
     {"LEX_EQ", "LEX_NEQ"}, {"LEX_LT", "LEX_GT", "LEX_LE", "LEX_GE"},
     {"LEX_SHL", "LEX_SHR"}, {"LEX_ADD", "LEX_SUB"}, {"LEX_MUL", "LEX_DIV", "LEX_MOD"}}
\* 1 op1 2 op2 3 for two operators of one level.
Chain(op1, op2) == <<IntTok(1), Tok(op1), IntTok(2), Tok(op2), IntTok(3)>>
\* 1 == 1 == 1
EqualOnes == <<IntTok(1), Tok("LEX_EQ"), IntTok(1), Tok("LEX_EQ"), IntTok(1)>>
ChainInputs ==
    UNION {{Chain(op1, op2) : op1 \in L, op2 \in L} : L \in Levels} \cup {EqualOnes}

ParseInputs ==
    ShortInputs \cup BinaryInputs \cup UnaryInputs \cup CastInputs \cup ParenInputs
    \cup ExampleInputs \cup ChainInputs

\* Closed expressions: (A) 3 op (B) n for B either A or s32, op (A) n, and
\* the short inputs that hold no identifier.
CastLit(T, n) == <<LP, Ident(TypeName(T)), RP, IntTok(n)>>
ClosedInputs ==
    UNION {{CastLit(A, 3) \o <<Tok(op)>> \o CastLit(B, n) :
                B \in {A, S32}, op \in BinaryTokens, n \in {0, 2}} : A \in ScalarTypes}
    \cup {<<Tok(op)>> \o CastLit(T, n) : op \in UnaryTokens, T \in ScalarTypes, n \in {0, 3}}
    \cup {in \in ShortInputs \cup ParenInputs \cup ExampleInputs :
                \A i \in 1..Len(in) : in[i].type # "LEX_IDENTIFIER"}
    \cup CondInputs

\* The comparison of do_explain: the status it returns, e the outcome of
\* the evaluation of the tree and e2 that of the evaluation of the optimized
\* tree.  -1: the process was killed by a trap.
explain_check(e, e2) ==
    CASE e.trap -> -1
      [] e.ret # 1 -> 4
      [] e2.trap -> -1
      [] e2.ret # 1 -> 6
      [] e.out.type # e2.out.type -> 7
      [] e.out.data # e2.out.data -> 8
      [] OTHER -> 0

CallFromSubstring ==
    /\ call.fn = "none"
    /\ \E str \in Names : \E len \in 0..Len(str) :
         call' = [fn |-> "value_type_from_substring", str |-> str, len |-> len,
                 res |-> value_type_from_substring(str, len)]
    /\ UNCHANGED session

CallParse ==
    /\ call.fn = "none"
    /\ \E in \in ParseInputs, symtab \in BOOLEAN :
         call' = [fn |-> "parse_expression", in |-> in, symtab |-> symtab,
                 res |-> parse_expression(in, symtab)]
    /\ UNCHANGED session

(***************************************************************************)
(* ast.c: ast_snprint writes the tree in reverse Polish notation.  The     *)
(* string is modelled by the tokens that the lexer makes of it.            *)
(***************************************************************************)
\* value_to_string: %ld, %lu or %g of the field of the type of the value.
value_to_string(v) ==
    IF IsInt(v.type)
    THEN (IF v.type \in SignedTypes /\ IsNeg(v.data)
          THEN <<Tok("LEX_SUB"), IntTok(0 - SNum(v.data))>>
          ELSE <<IntTok(SNum(Extend(v.data, Len(v.data) + 1, FALSE)))>>)
    ELSE (IF v.data.n < 0
          THEN <<Tok("LEX_SUB"), FpTok(0 - v.data.n, v.data.d)>>
          ELSE <<FpTok(v.data.n, v.data.d)>>)

\* "(%s)" of value_type_to_string(type)
type_snprint(t) == <<LP, Ident(TypeName(t)), RP>>

\* The token of the operator of a node; u- is the letter u and a minus.
ast_op_snprint(t) ==
    CASE t = "AST_USUB" -> <<Ident(<<"u">>), Tok("LEX_SUB")>>
      [] t = "AST_UADD" -> <<Ident(<<"u">>), Tok("LEX_ADD")>>
      [] t = "AST_NOT" -> <<Tok("LEX_NOT")>>
      [] t = "AST_COMPL" -> <<Tok("LEX_COMPL")>>
      [] OTHER -> <<Tok(CHOOSE l \in BinaryTokens \cup {"LEX_AND_COND", "LEX_OR_COND"} :
                            lex_to_ast_type(l) = t)>>

RECURSIVE ast_snprint(_)
ast_value_snprint(this) == type_snprint(this.value_type) \o value_to_string(this.value)
ast_var_snprint(this) == type_snprint(this.value_type) \o <<Ident(this.name)>>
ast_cast_snprint(this) == ast_snprint(this.child) \o type_snprint(this.value_type)
ast_unary_snprint(this) == ast_snprint(this.child) \o ast_op_snprint(this.node_type)
ast_binary_snprint(this) ==
    ast_snprint(this.left) \o ast_snprint(this.right) \o ast_op_snprint(this.node_type)

\* ast_snprint_funcs[ast->node_type](ast, out, size)
ast_snprint(ast) ==
    CASE ast.node_type = "AST_VALUE" -> ast_value_snprint(ast)
      [] ast.node_type = "AST_VAR" -> ast_var_snprint(ast)
      [] ast.node_type = "AST_CAST" -> ast_cast_snprint(ast)
      [] ast.node_type \in UnaryNodes -> ast_unary_snprint(ast)
      [] OTHER -> ast_binary_snprint(ast)

\* ast_print of the tree of an expression that parses, and the parse of
\* what was printed.
Printed(in, symtab, r, out) ==
    [fn |-> "ast_print", in |-> in, symtab |-> symtab, ast |-> r.pout, out |-> out,
     res |-> parse_expression(out, symtab)]

PrintParsed(in, symtab, r) ==
    r.errors = 0 /\ call' = Printed(in, symtab, r, ast_snprint(r.pout))

CallPrint ==
    /\ call.fn = "none"
    /\ \E in \in ParseInputs, symtab \in BOOLEAN :
         PrintParsed(in, symtab, parse_expression(in, symtab))
    /\ UNCHANGED session

\* The self-check of explain on the tree ast of the input in: u is the
\* environment of the first evaluation, u2 that of the optimization and of
\* the second evaluation.
Explained(in, ast, u, u2, e, e2) ==
    [fn |-> "explain", in |-> in, ast |-> ast, u |-> u, u2 |-> u2,
     e |-> e, e2 |-> e2, rc |-> explain_check(e, e2)]

\* The optimized tree is evaluated when ast_optimize has returned.
Explain(in, ast, u, u2) ==
    Explained(in, ast, u, u2, ast_evaluate(ast, u),
              IF ast_optimize_traps(ast, u2) THEN Trapped
              ELSE ast_evaluate(ast_optimize(ast, u2), u2))

ExplainParsed(in, r, u, u2) == r.errors = 0 /\ call' = Explain(in, r.pout, u, u2)

\* explain on a closed expression that parses.
CallExplain ==
    /\ call.fn = "none"
    /\ \E in \in ClosedInputs, u \in Envs, fill2 \in {0, 255} :
         ExplainParsed(in, parse_expression(in, FALSE), u, [u EXCEPT !.fill = fill2])
    /\ UNCHANGED session

\* v op 1 * 2 for a variable v of every type.
OpenInput(T, op) ==
    <<Ident(VarName(T)), Tok(op), IntTok(1), Tok("LEX_MUL"), IntTok(2)>>
OpenInputs == {OpenInput(T, op) : T \in ScalarTypes, op \in {"LEX_ADD", "LEX_SUB", "LEX_LT"}}
OptimizeInputs == ClosedInputs \cup OpenInputs \cup BinaryInputs

\* ast_optimize on the tree ast of the input in: e is the evaluation of
\* ast, traps whether an evaluation made by ast_optimize is killed, opt the
\* tree that ast_optimize returns otherwise.
Optimized(in, ast, u) ==
    [fn |-> "ast_optimize", in |-> in, ast |-> ast, u |-> u, e |-> ast_evaluate(ast, u),
     traps |-> ast_optimize_traps(ast, u),
     opt |-> IF ast_optimize_traps(ast, u) THEN Null ELSE ast_optimize(ast, u),
     objects |-> IF ast_optimize_traps(ast, u) THEN Null
                 ELSE OptimizeIn(ast_store(<<>>, ast), u)]

OptimizeParsed(in, r, u) == r.errors = 0 /\ call' = Optimized(in, r.pout, u)

\* ast_optimize on the tree of an expression that parses.
CallOptimize ==
    /\ call.fn = "none"
    /\ \E in \in OptimizeInputs, u \in Envs : OptimizeParsed(in, parse_expression(in, TRUE), u)
    /\ UNCHANGED session

(***************************************************************************)
(* mem.c: the regions of /proc/pid/maps.  maps is the sequence of the      *)
(* lines of the file, each a region; an iterator is the file that was      *)
(* opened: it tells whether the iterator is allocated, pos the number of   *)
(* lines read, region the line read last, closes the number of fclose.     *)
(***************************************************************************)
MaxMapAddr == 3
MaxMaps == 3
MapRegions == [start : 0..(MaxMapAddr - 1), size : 1..2]
NoRegion == [start |-> 0, size |-> 0]
NoIter == [it |-> FALSE, pos |-> 0, region |-> NoRegion, closes |-> 0]

\* fscanf reads the next line; at the end of the file the file is closed
\* and the iterator freed.
mem_region_iter_next(maps, f) ==
    IF ~f.it THEN f
    ELSE IF f.pos < Len(maps)
    THEN [f EXCEPT !.pos = @ + 1, !.region = maps[f.pos + 1]]
    ELSE [f EXCEPT !.it = FALSE, !.region = NoRegion, !.closes = @ + 1]

\* opened: fopen gave the file.  The first line is read before the return.
mem_region_iter_first(maps, opened) ==
    IF ~opened THEN NoIter
    ELSE mem_region_iter_next(maps, [NoIter EXCEPT !.it = TRUE])

\* it->start <= addr && addr < it->start + it->size
region_holds(mr, addr) == mr.start <= addr /\ addr < mr.start + mr.size

RECURSIVE find_addr_loop(_, _, _)
\* while ((it = mem_region_iter_next(it))): f is the iterator before the
\* call in the condition.
find_addr_loop(maps, f, addr) ==
    LET next(n) ==
            IF ~n.it THEN n
            ELSE IF region_holds(n.region, addr) THEN [n EXCEPT !.closes = @ + 1]
            ELSE find_addr_loop(maps, n, addr)
    IN  next(mem_region_iter_next(maps, f))

mem_region_find_addr(maps, opened, addr) ==
    find_addr_loop(maps, mem_region_iter_first(maps, opened), addr)

MapLists == SeqsUpTo(MapRegions, MaxMaps)

CallFindAddr ==
    /\ call.fn = "none"
    /\ \E maps \in MapLists, opened \in BOOLEAN, addr \in 0..MaxMapAddr :
         call' = [fn |-> "mem_region_find_addr", maps |-> maps, opened |-> opened,
                  addr |-> addr, res |-> mem_region_find_addr(maps, opened, addr)]
    /\ UNCHANGED session

(***************************************************************************)
(* cli.c: cli_execute on a buffer of characters.  The buffer ends with a   *)
(* NUL that the sequence does not hold; a pointer is a place of the        *)
(* sequence, 0 the null pointer.  A command is the letter a, the command   *)
(* q quits.  An execution is the buffer, the commands given to             *)
(* cli_execute_line so far and whether the session is running.             *)
(***************************************************************************)
NUL == "NUL"
MaxChars == 5
Chars == {"a", "q", ";", "#", "newline"}

RECURSIVE strchr(_, _, _)
\* strchr(buf + i, ch) for a character ch that is not NUL.
strchr(buf, i, ch) ==
    IF i > Len(buf) \/ buf[i] = NUL THEN 0
    ELSE IF buf[i] = ch THEN i
    ELSE strchr(buf, i + 1, ch)

RECURSIVE strlen(_, _)
\* strlen(buf + i)
strlen(buf, i) == IF i > Len(buf) \/ buf[i] = NUL THEN 0 ELSE 1 + strlen(buf, i + 1)

\* The string that starts at the place i.
cstring(buf, i) == SubSeq(buf, i, i + strlen(buf, i) - 1)

\* if (p) *p = ch
put(e, p, ch) == IF p = 0 THEN e ELSE [e EXCEPT !.buf[p] = ch]

\* rc = cli_execute_line(ctx, start): the command q ends the session.
execute_line(e, start) ==
    [e EXCEPT !.lines = Append(@, cstring(e.buf, start)),
              !.running = cstring(e.buf, start) # <<"q">>]

\* A loop over the commands of a line that leaves the NUL where a ; was.
RECURSIVE commands_loop(_, _)
commands_loop_unrestored(e, start) ==
    LET run(end, e1) ==
            IF end = 0 THEN execute_line(e1, start)
            ELSE commands_loop(execute_line(e1, start), end + 1)
    IN  IF ~e.running THEN e
        ELSE run(strchr(e.buf, start, ";"), put(e, strchr(e.buf, start, ";"), NUL))

\* for (start = lstart; start && ramfuck_running(ctx); start = end + 1)
commands_loop(e, start) ==
    LET run(end, e1) ==
            IF end = 0 THEN execute_line(e1, start)
            ELSE commands_loop(put(execute_line(e1, start), end, ";"), end + 1)
    IN  IF ~e.running THEN e
        ELSE run(strchr(e.buf, start, ";"), put(e, strchr(e.buf, start, ";"), NUL))

RECURSIVE lines_loop(_, _)
\* for (lstart = in; lstart && ramfuck_running(ctx); lstart = lend + 1)
lines_loop(e, lstart) ==
    LET \* e2: the buffer with the line cut at its end and at its comment
        commands(lend, comment, e2) ==
            IF lend = 0 THEN put(commands_loop(e2, lstart), comment, "#")
            ELSE lines_loop(put(put(commands_loop(e2, lstart), comment, "#"), lend, "newline"),
                            lend + 1)
        cut(lend, e1) ==
            commands(lend, strchr(e1.buf, lstart, "#"), put(e1, strchr(e1.buf, lstart, "#"), NUL))
    IN  IF ~e.running THEN e
        ELSE cut(strchr(e.buf, lstart, "newline"), put(e, strchr(e.buf, lstart, "newline"), NUL))

cli_execute(in) == lines_loop([buf |-> in, lines |-> <<>>, running |-> TRUE], 1)

Buffers == SeqsUpTo(Chars, MaxChars)

CallExecute ==
    /\ call.fn = "none"
    /\ \E in \in Buffers : call' = [fn |-> "cli_execute", in |-> in, res |-> cli_execute(in)]
    /\ UNCHANGED session

\* The call returns to the caller.
Return ==
    /\ call.fn # "none"
    /\ call' = [fn |-> "none"]
    /\ UNCHANGED session

NextExpr ==
    CallUnary \/ CallBinary \/ CallFromSubstring \/ CallParse \/ CallExplain \/ CallPrint
    \/ CallOptimize \/ CallFindAddr \/ CallExecute \/ CallCast
    \/ Return

(***************************************************************************)
(* The session, struct ramfuck: the attached target, the count of break    *)
(* leases, the current hits and the status of the last command.  stopped   *)
(* tells whether the attached process is stopped, mem is its memory, bits  *)
(* is ADDR_BITS, fixed by the build.  A command is one action: its handler *)
(* runs from its first line to its return.  last holds the command that    *)
(* ran last and the calls of ramfuck_break, of ramfuck_continue and of     *)
(* target->run that it made, each with the break count and the state of    *)
(* the target it found.                                                    *)
(***************************************************************************)
NoTarget == "NULL"
Targets == {"pid1", "pid2"}
Addrs == 0..MaxAddr
NoHits == <<>>
\* What last keeps of a command: nothing, that its expression did not
\* parse, or the arguments of a scan and the hits it found.
NoArg == [kind |-> "none"]

Ctx ==
    [target |-> target, breaks |-> breaks, stopped |-> stopped, addr_size |-> addr_size,
     hits |-> hits, running |-> running, mem |-> mem, calls |-> <<>>, arg |-> NoArg]

Called(c, fn) ==
    [c EXCEPT !.calls = Append(@, [fn |-> fn, breaks |-> c.breaks, stopped |-> c.stopped])]

\* ramfuck_break(ctx): the first lease stops the target, the others count.
\* stop is the outcome of target->stop.  The return value:
ramfuck_break_ok(c, stop) == c.target # NoTarget /\ (c.breaks > 0 \/ stop)

ramfuck_break(c, stop) ==
    IF ~ramfuck_break_ok(c, stop) THEN Called(c, "ramfuck_break")
    ELSE IF c.breaks > 0 THEN [Called(c, "ramfuck_break") EXCEPT !.breaks = @ + 1]
    ELSE [Called(c, "ramfuck_break") EXCEPT !.breaks = 1, !.stopped = TRUE]

\* ramfuck_continue(ctx): the lease is given back, the last one lets the
\* target run.  run is the outcome of target->run.  The return value:
ramfuck_continue_ok(c, run) == c.breaks > 1 \/ (c.breaks = 1 /\ run)

ramfuck_continue(c, run) ==
    IF c.breaks = 0 THEN Called(c, "ramfuck_continue")
    ELSE IF c.breaks > 1 THEN [Called(c, "ramfuck_continue") EXCEPT !.breaks = @ - 1]
    ELSE [Called(c, "ramfuck_continue") EXCEPT !.breaks = 0, !.stopped = ~run]

\* A release that tells the target to run and keeps the break count.
release_target_counted(c) ==
    [(IF c.breaks > 0 THEN Called(c, "run") ELSE c) EXCEPT !.stopped = FALSE]

\* if (ctx->breaks) { ctx->target->run(ctx->target); ctx->breaks = 0; }
\* target_detach(ctx->target);
release_target(c) ==
    [(IF c.breaks > 0 THEN Called(c, "run") ELSE c) EXCEPT !.breaks = 0, !.stopped = FALSE]

\* What a handler returns: the session it leaves and its status.
Result(c, status) == [ctx |-> c, rc |-> status]

\* The return of a handler whose expression did not parse.
ParseFailed(c, status) == Result([c EXCEPT !.arg.kind = "parse"], status)

\* The return of a handler after a step of the kind "eval", "read" or
\* "write" failed.
StepFailed(c, kind, status) == Result([c EXCEPT !.arg.kind = kind], status)

\* A lease around an evaluation, taken when the expression has a dereference.
LeaseKinds == {"none", "held", "stop_fails", "run_fails"}
lease_break(c, lease) ==
    IF lease = "none" THEN c ELSE ramfuck_break(c, lease # "stop_fails")
lease_continue(c, lease) ==
    IF lease = "none" THEN c ELSE ramfuck_continue(c, lease # "run_fails")

\* A region of the target: start is counted from 2^32, so that the region
\* ends above UINT32_MAX when start + size - 1 > -1.
Regions == [start : {-2, -1}, size : {1, 2}]
\* A test of the end of the region in place of its last byte.
region_above_end(mr) == mr.start + mr.size > -1

region_above(mr) == mr.start + mr.size - 1 > -1

RECURSIVE region_first_above(_, _, _)
\* The region where the first loop of do_attach breaks, 0 when it ends.
region_first_above(regions, i, b) ==
    IF i > Len(regions) THEN 0
    ELSE IF b = 64 /\ region_above(regions[i]) THEN i
    ELSE region_first_above(regions, i + 1, b)

attach_target(c, new) ==
    [(IF c.target # NoTarget THEN release_target(c) ELSE c)
        EXCEPT !.target = new, !.breaks = 0, !.stopped = FALSE]

attach_regions(c, regions, b) ==
    [c EXCEPT !.addr_size = IF region_first_above(regions, 1, b) # 0 THEN 8 ELSE 4]

\* What last keeps of an attach: the regions that the target enumerated.
attach_arg(c, regions) == [c EXCEPT !.arg = [kind |-> "attach", regions |-> regions]]

\* x: eol, attached (target_attach succeeded), target, regions, lease.
do_attach(c, x, b) ==
    IF x.eol THEN Result(c, 1)
    ELSE IF ~x.attached THEN Result(c, 2)
    ELSE Result(attach_arg(ramfuck_continue(attach_regions(ramfuck_break(attach_target(c, x.target),
                                                                         x.lease # "stop_fails"),
                                                           x.regions, b),
                                            x.lease # "run_fails"), x.regions), 0)

do_break(c, x) ==
    IF x.trailing THEN Result(c, 1)
    ELSE IF c.target = NoTarget THEN Result(c, 2)
    ELSE IF c.breaks # 0 THEN Result(c, 3)
    ELSE IF ~ramfuck_break_ok(c, x.stop) THEN Result(ramfuck_break(c, x.stop), 3)
    ELSE Result(ramfuck_break(c, x.stop), 0)

\* ramfuck_set_hits(ctx, NULL)
do_clear(c, x) ==
    IF x.trailing THEN Result(c, 1) ELSE Result([c EXCEPT !.hits = NoHits], 0)

do_continue(c, x) ==
    IF x.trailing THEN Result(c, 1)
    ELSE IF c.target = NoTarget THEN Result(c, 2)
    ELSE IF c.breaks = 0 THEN Result(c, 3)
    ELSE IF ~ramfuck_continue_ok(c, x.run) THEN Result(ramfuck_continue(c, x.run), 4)
    ELSE Result(ramfuck_continue(c, x.run), 0)

do_detach(c, x) ==
    IF x.trailing THEN Result(c, 1)
    ELSE IF c.target = NoTarget THEN Result(c, 1)
    ELSE Result([release_target(c) EXCEPT !.target = NoTarget], 0)

\* x.fail: the step that fails, "parse" or "eval", or "none".
do_eval(c, x) ==
    IF x.fail = "parse" THEN ParseFailed(c, 1)
    ELSE IF x.fail = "eval"
    THEN StepFailed(lease_continue(lease_break(c, x.lease), x.lease), "eval", 2)
    ELSE Result(lease_continue(lease_break(c, x.lease), x.lease), 0)

\* x.fail: the step that fails, or "none"; "type" and "data" are the two
\* comparisons of the values of the tree and of the optimized tree.
ExplainFails == {"none", "eol", "symtab", "parse", "eval", "opt", "eval_opt", "type", "data"}

explain_status(fail) ==
    CASE fail = "eval" -> 4
      [] fail = "opt" -> 5
      [] fail = "eval_opt" -> 6
      [] fail = "type" -> 7
      [] fail = "data" -> 8
      [] OTHER -> 0

\* An explain that returns on a failed evaluation with the lease held.
do_explain_unbalanced(c, x) ==
    IF x.fail = "eol" THEN Result(c, 1)
    ELSE IF x.fail = "symtab" THEN Result(c, 2)
    ELSE IF x.fail = "parse" THEN Result(c, 3)
    ELSE IF x.fail = "eval" THEN Result(lease_break(c, x.lease), 4)
    ELSE Result(lease_continue(lease_break(c, x.lease), x.lease), explain_status(x.fail))

do_explain(c, x) ==
    IF x.fail = "eol" THEN Result(c, 1)
    ELSE IF x.fail = "symtab" THEN Result(c, 2)
    ELSE IF x.fail = "parse" THEN Result(c, 3)
    ELSE Result(lease_continue(lease_break(c, x.lease), x.lease), explain_status(x.fail))

\* The loop reads the hits and prints them; it changes nothing.
do_list(c, x) ==
    IF x.trailing THEN Result(c, 1)
    ELSE IF c.hits = NoHits THEN Result(c, 0)
    ELSE Result(ramfuck_continue(ramfuck_break(c, x.lease # "stop_fails"),
                                 x.lease # "run_fails"), 0)

\* A poke_index that takes the index as the slot when it is not negative.
poke_index_from_zero(c, index0) == IF index0 < 0 THEN index0 + Len(c.hits) ELSE index0

\* index = (index0 < 0) ? index0 + ctx->hits->size : index0 - 1
poke_index(c, index0) == IF index0 < 0 THEN index0 + Len(c.hits) ELSE index0 - 1

\* The hit index given and the slot of ctx->hits->items it selects, -1
\* when the index is refused.
index_arg(c, index0, slot) ==
    [c EXCEPT !.arg = [kind |-> "index", index0 |-> index0, slot |-> slot]]

\* The steps of do_peek that fail on their own, in the order of the code.
PeekFails == {"none", "eol", "type_eol", "addr", "sint", "trailing", "read"}

\* ramfuck_read(ctx, addr, buf, size): there is a target and its read succeeds.
ramfuck_read_ok(c, x) == c.target # NoTarget /\ x.fail # "read"

\* After the arguments: the value at addr is read and printed, "???" when
\* the read fails.
peek_value(c, x, addr) ==
    IF x.fail = "trailing" THEN Result(c, 7)
    ELSE IF ramfuck_read_ok(c, x) THEN Result(c, 0)
    ELSE StepFailed(c, "read", 0)

\* x.typed: peek <type> <addr>, else peek <hit_index>.
do_peek(c, x) ==
    IF x.fail = "eol" THEN Result(c, 1)
    ELSE IF x.fail = "type_eol" THEN Result(c, 2)
    ELSE IF x.typed
    THEN (IF x.fail = "addr" THEN Result(c, 3) ELSE peek_value(c, x, x.addr))
    ELSE (IF x.fail = "sint" THEN Result(c, 4)
          ELSE IF c.hits = NoHits THEN Result(index_arg(c, x.index0, -1), 5)
          ELSE IF ~(0 <= poke_index(c, x.index0) /\ poke_index(c, x.index0) < Len(c.hits))
          THEN Result(index_arg(c, x.index0, -1), 6)
          ELSE peek_value(index_arg(c, x.index0, poke_index(c, x.index0)), x,
                          c.hits[poke_index(c, x.index0) + 1].addr))

\* The steps of do_poke that fail on their own, in the order of the code.
PokeFails ==
    {"none", "eol", "type_eol", "addr", "sint", "value_eol", "symtab", "read", "parse",
     "cast", "eval", "write"}

\* The value is evaluated under a lease, then written to addr.
poke_value(c, x, addr) ==
    IF x.fail = "parse" THEN ParseFailed(c, 11)
    ELSE IF x.fail = "read" THEN StepFailed(c, "read", 10)
    ELSE IF x.fail \in {"value_eol", "symtab", "cast"}
    THEN Result(c, CASE x.fail = "value_eol" -> 8
                     [] x.fail = "symtab" -> 9
                     [] OTHER -> 12)
    ELSE IF x.fail = "eval"
    THEN StepFailed(lease_continue(lease_break(c, x.lease), x.lease), "eval", 13)
    ELSE IF x.fail = "write"
    THEN StepFailed(lease_continue(lease_break(c, x.lease), x.lease), "write", 14)
    ELSE Result([lease_continue(lease_break(c, x.lease), x.lease)
                    EXCEPT !.mem = [@ EXCEPT ![addr] = x.value]], 0)

\* x.typed: poke <type> <addr> <value>, else poke <hit_index> <value>.
do_poke(c, x) ==
    IF x.fail = "eol" THEN Result(c, 1)
    ELSE IF c.target = NoTarget THEN Result(c, 2)
    ELSE IF x.typed
    THEN (IF x.fail = "type_eol" THEN Result(c, 3)
          ELSE IF x.fail = "addr" THEN Result(c, 4)
          ELSE poke_value(c, x, x.addr))
    ELSE (IF x.fail = "sint" THEN Result(c, 5)
          ELSE IF c.hits = NoHits THEN Result(index_arg(c, x.index0, -1), 6)
          ELSE IF ~(0 <= poke_index(c, x.index0) /\ poke_index(c, x.index0) < Len(c.hits))
          THEN Result(index_arg(c, x.index0, -1), 7)
          ELSE poke_value(index_arg(c, x.index0, poke_index(c, x.index0)), x,
                          c.hits[poke_index(c, x.index0) + 1].addr))

\* ramfuck_quit(ctx); return ctx->rc;
do_quit(c, x, status) ==
    IF x.trailing THEN Result(c, 1)
    ELSE Result([(IF c.target # NoTarget THEN release_target(c) ELSE c)
                    EXCEPT !.target = NoTarget, !.running = FALSE], status)

(***************************************************************************)
(* The predicate of a scan or of a filter, compiled: what its evaluation   *)
(* gives with the symbol addr bound to a and the symbol value to the cell  *)
(* v read at a.  1 stands for a non-zero value, -1 for an evaluation that  *)
(* fails.                                                                  *)
(***************************************************************************)
Preds == {"value == 0", "value == 1", "1", "1 / (addr == 0)"}
pred_eval(p, a, v) ==
    CASE p = "value == 0" -> IF v = 0 THEN 1 ELSE 0
      [] p = "value == 1" -> IF v = 1 THEN 1 ELSE 0
      [] p = "1" -> 1
      [] OTHER -> IF a = 0 THEN 1 ELSE -1

\* The hit is read again at its address and the predicate evaluated on
\* it: the hit stays when the read succeeds and the value is not zero.
filter_keeps(c, x, h) ==
    h.addr \notin x.unread /\ pred_eval(x.pred, h.addr, c.mem[h.addr]) = 1

RECURSIVE filter_from(_, _, _, _)
\* The hits of H from the i-th on that stay, in the order of H.
filter_from(c, x, H, i) ==
    IF i > Len(H) THEN <<>>
    ELSE IF filter_keeps(c, x, H[i]) THEN <<H[i]>> \o filter_from(c, x, H, i + 1)
    ELSE filter_from(c, x, H, i + 1)

\* filter(ctx, hits, in): H itself when the expression does not parse and
\* when every hit stays, else the new list.
filter(c, x, H) ==
    IF ~x.parsed \/ filter_from(c, x, H, 1) = H THEN H ELSE filter_from(c, x, H, 1)

\* The regions of a target, in the order in which the target enumerates
\* them: region_first, region_next.
target_regions(t) ==
    IF t = "pid1" THEN <<[start |-> 0, size |-> MaxAddr + 1]>>
    ELSE <<[start |-> MaxAddr, size |-> 1], [start |-> 0, size |-> MaxAddr]>>

RECURSIVE scan_from(_, _, _, _, _)
\* The hits of the region mr from the address a on: every candidate, from
\* the lowest address up, on which the predicate is not zero.
scan_from(c, x, mr, a, type) ==
    IF a >= mr.start + mr.size THEN <<>>
    ELSE IF pred_eval(x.pred, a, c.mem[a]) = 1
    THEN <<[addr |-> a, type |-> type]>> \o scan_from(c, x, mr, a + 1, type)
    ELSE scan_from(c, x, mr, a + 1, type)

RECURSIVE search_from(_, _, _, _, _)
\* The hits of the regions from the i-th on; a region whose read fails is
\* skipped.
search_from(c, x, regions, i, type) ==
    IF i > Len(regions) THEN <<>>
    ELSE IF regions[i].start \in x.unread THEN search_from(c, x, regions, i + 1, type)
    ELSE scan_from(c, x, regions[i], regions[i].start, type)
            \o search_from(c, x, regions, i + 1, type)

\* search(ctx, type, in): the hits of the scan, which runs under a lease.
search(c, x, type) == search_from(c, x, target_regions(c.target), 1, type)

\* A search that drops the current hits when the expression does not parse.
do_search_clears(c, x) ==
    IF x.eol THEN Result(c, 1)
    ELSE IF c.target = NoTarget THEN Result(c, 2)
    ELSE IF ~x.parsed THEN ParseFailed([c EXCEPT !.hits = NoHits], 3)
    ELSE Result([ramfuck_continue(ramfuck_break(c, x.lease # "stop_fails"),
                                  x.lease # "run_fails")
                    EXCEPT !.hits = search(c, x, S32),
                           !.arg = [kind |-> "scan", pred |-> x.pred, unread |-> x.unread,
                                    before |-> NoHits]], 0)

\* A search that adds the hits it finds to the current ones.
do_search_appends(c, x) ==
    IF x.eol THEN Result(c, 1)
    ELSE IF c.target = NoTarget THEN Result(c, 2)
    ELSE IF ~x.parsed THEN ParseFailed(c, 3)
    ELSE Result([ramfuck_continue(ramfuck_break(c, x.lease # "stop_fails"),
                                  x.lease # "run_fails")
                    EXCEPT !.hits = c.hits \o search(c, x, S32),
                           !.arg = [kind |-> "scan", pred |-> x.pred, unread |-> x.unread,
                                    before |-> NoHits]], 0)

\* No hits come back when the expression does not parse.
do_search(c, x) ==
    IF x.eol THEN Result(c, 1)
    ELSE IF c.target = NoTarget THEN Result(c, 2)
    ELSE IF ~x.parsed THEN ParseFailed(c, 3)
    ELSE Result([ramfuck_continue(ramfuck_break(c, x.lease # "stop_fails"),
                                  x.lease # "run_fails")
                    EXCEPT !.hits = search(c, x, S32),
                           !.arg = [kind |-> "scan", pred |-> x.pred, unread |-> x.unread,
                                    before |-> NoHits]], 0)

\* A filter that scans the target again.
do_filter_rescan(c, x) ==
    IF x.eol THEN Result(c, 1)
    ELSE IF c.hits = NoHits THEN Result(c, 2)
    ELSE IF ~x.parsed THEN ParseFailed(c, 3)
    ELSE IF search(c, x, S32) = c.hits
    THEN Result(lease_continue(lease_break(c, x.lease), x.lease), 3)
    ELSE Result([lease_continue(lease_break(c, x.lease), x.lease)
                    EXCEPT !.hits = search(c, x, S32),
                           !.arg = [kind |-> "scan", pred |-> x.pred, unread |-> x.unread,
                                    before |-> c.hits]], 0)

\* The arguments of a pass that kept every hit: filter gave ctx->hits back.
kept_arg(c, x) ==
    [c EXCEPT !.arg = [kind |-> "kept", pred |-> x.pred, unread |-> x.unread]]

\* A filter that installs the list whenever the expression parsed.
do_filter_installs(c, x) ==
    IF x.eol THEN Result(c, 1)
    ELSE IF c.hits = NoHits THEN Result(c, 2)
    ELSE IF ~x.parsed THEN ParseFailed(c, 3)
    ELSE Result([lease_continue(lease_break(c, x.lease), x.lease)
                    EXCEPT !.hits = filter(c, x, c.hits),
                           !.arg = [kind |-> "scan", pred |-> x.pred, unread |-> x.unread,
                                    before |-> c.hits]], 0)

\* The pass runs under a lease; ramfuck_set_hits is called on the last
\* path only.
do_filter(c, x) ==
    IF x.eol THEN Result(c, 1)
    ELSE IF c.hits = NoHits THEN Result(c, 2)
    ELSE IF ~x.parsed THEN ParseFailed(c, 3)
    ELSE IF filter(c, x, c.hits) = c.hits
    THEN Result(kept_arg(lease_continue(lease_break(c, x.lease), x.lease), x), 3)
    ELSE Result([lease_continue(lease_break(c, x.lease), x.lease)
                    EXCEPT !.hits = filter(c, x, c.hits),
                           !.arg = [kind |-> "scan", pred |-> x.pred, unread |-> x.unread,
                                    before |-> c.hits]], 0)

(***************************************************************************)
(* cli_execute_line: the handler of the command runs and its status is     *)
(* kept in ctx->rc.                                                        *)
(***************************************************************************)
Execute(cmd, r) ==
    /\ target' = r.ctx.target
    /\ breaks' = r.ctx.breaks
    /\ stopped' = r.ctx.stopped
    /\ addr_size' = r.ctx.addr_size
    /\ hits' = r.ctx.hits
    /\ running' = r.ctx.running
    /\ mem' = r.ctx.mem
    /\ rc' = r.rc
    /\ last' = [cmd |-> cmd, calls |-> r.ctx.calls, arg |-> r.ctx.arg]
    /\ UNCHANGED <<call, bits>>

\* The inputs of the commands.  A lease matters only on the paths that reach
\* it, the arguments only on the paths that read them.
Leases == {"held", "stop_fails", "run_fails"}
RegionLists == SeqsUpTo(Regions, MaxRegions)

AttachInputs ==
    [eol : {FALSE}, attached : {TRUE}, target : Targets, regions : RegionLists,
     lease : {"held"}]
    \cup [eol : {FALSE}, attached : {TRUE}, target : Targets, regions : {<<>>},
          lease : Leases]
    \cup [eol : BOOLEAN, attached : {FALSE}, target : {"pid1"}, regions : {<<>>},
          lease : {"held"}]

EvalInputs ==
    [fail : {"none", "eval"}, lease : LeaseKinds] \cup [fail : {"parse"}, lease : {"none"}]

ExplainInputs ==
    [fail : ExplainFails \ {"eol", "symtab", "parse"}, lease : LeaseKinds]
    \cup [fail : {"eol", "symtab", "parse"}, lease : {"none"}]

PokeArguments ==
    [typed : {TRUE}, addr : Addrs, index0 : {0}]
    \cup [typed : {FALSE}, addr : {0}, index0 : (0 - MaxAddr - 2)..(MaxAddr + 2)]

\* The arguments on the paths that do not depend on them.
FewArguments ==
    {a \in PokeArguments : (a.typed /\ a.addr = 0) \/ (~a.typed /\ a.index0 \in {-1, 1})}

PokeInputs ==
    {[fail |-> f, lease |-> "none", typed |-> a.typed, addr |-> a.addr,
      index0 |-> a.index0, value |-> 1] :
        f \in {"none", "eval", "write"}, a \in PokeArguments}
    \cup {[fail |-> f, lease |-> l, typed |-> a.typed, addr |-> a.addr,
           index0 |-> a.index0, value |-> 1] :
        f \in {"none", "eval", "write"}, l \in LeaseKinds \ {"none"}, a \in FewArguments}
    \cup {[fail |-> f, lease |-> "none", typed |-> a.typed, addr |-> a.addr,
           index0 |-> a.index0, value |-> 1] :
        f \in PokeFails \ {"none", "eval", "write"}, a \in FewArguments}

PeekInputs ==
    {[fail |-> f, typed |-> a.typed, addr |-> a.addr, index0 |-> a.index0] :
        f \in {"none", "trailing", "read"}, a \in PokeArguments}
    \cup {[fail |-> f, typed |-> a.typed, addr |-> a.addr, index0 |-> a.index0] :
        f \in PeekFails \ {"none", "trailing", "read"}, a \in FewArguments}

\* pred: the predicate; unread: the addresses where a read of the target
\* fails (for a scan, the start of a region whose read fails).
FilterInputs ==
    [eol : {FALSE}, parsed : {TRUE}, pred : Preds, unread : SUBSET Addrs, lease : {"held"}]
    \cup [eol : {FALSE}, parsed : {TRUE}, pred : {"1"}, unread : {{}}, lease : Leases]
    \cup [eol : BOOLEAN, parsed : {FALSE}, pred : {"1"}, unread : {{}}, lease : {"held"}]

SearchInputs == FilterInputs

CliAttach ==
    /\ running
    /\ \E x \in AttachInputs : Execute("attach", do_attach(Ctx, x, bits))

CliBreak ==
    /\ running
    /\ \E x \in [trailing : BOOLEAN, stop : BOOLEAN] : Execute("break", do_break(Ctx, x))

CliClear ==
    /\ running
    /\ \E x \in [trailing : BOOLEAN] : Execute("clear", do_clear(Ctx, x))

CliContinue ==
    /\ running
    /\ \E x \in [trailing : BOOLEAN, run : BOOLEAN] :
         Execute("continue", do_continue(Ctx, x))

CliDetach ==
    /\ running
    /\ \E x \in [trailing : BOOLEAN] : Execute("detach", do_detach(Ctx, x))

CliEval ==
    /\ running
    /\ \E x \in EvalInputs : Execute("eval", do_eval(Ctx, x))

CliExplain ==
    /\ running
    /\ \E x \in ExplainInputs : Execute("explain", do_explain(Ctx, x))

CliFilter ==
    /\ running
    /\ \E x \in FilterInputs : Execute("filter", do_filter(Ctx, x))

CliList ==
    /\ running
    /\ \E x \in [trailing : BOOLEAN, lease : Leases] : Execute("list", do_list(Ctx, x))

CliPeek ==
    /\ running
    /\ \E x \in PeekInputs : Execute("peek", do_peek(Ctx, x))

CliPoke ==
    /\ running
    /\ \E x \in PokeInputs : Execute("poke", do_poke(Ctx, x))

CliQuit ==
    /\ running
    /\ \E x \in [trailing : BOOLEAN] : Execute("quit", do_quit(Ctx, x, rc))

CliSearch ==
    /\ running
    /\ \E x \in SearchInputs : Execute("search", do_search(Ctx, x))

\* The commands that a line can hold after and / or, each with the
\* result of its handler on the session as it is.
Commands ==
    {[cmd |-> "eval", r |-> do_eval(Ctx, x)] : x \in [fail : {"none", "parse"}, lease : {"none"}]}
    \cup {[cmd |-> "break", r |-> do_break(Ctx, x)] : x \in [trailing : {FALSE}, stop : {TRUE}]}
    \cup {[cmd |-> "clear", r |-> do_clear(Ctx, x)] : x \in [trailing : {FALSE}]}
    \cup {[cmd |-> "empty", r |-> Result(Ctx, 0)]}

\* What last keeps of a line with and / or: the words in front of the
\* command, the command and whether its handler ran.
prefixed_arg(c, prefixes, cmd, ran) ==
    [c EXCEPT !.arg = [kind |-> "prefixed", prefixes |-> prefixes, cmd |-> cmd, ran |-> ran]]

\* An and that runs the command whatever the status is.
cli_and_always(status) == TRUE

\* rc = ctx->rc ? ctx->rc : cli_execute_line(ctx, in): the line goes on
\* after and when the status is 0.
cli_and(status) == status = 0

\* rc = ctx->rc ? cli_execute_line(ctx, in) : ctx->rc: the line goes on
\* after or when the status is not 0.
cli_or(status) == status # 0

RECURSIVE cli_prefixes_run(_, _)
\* The handler of the command is reached through all the words in front of
\* it; ctx->rc does not change before the line returns.
cli_prefixes_run(prefixes, status) ==
    \/ prefixes = <<>>
    \/ /\ IF Head(prefixes) = "and" THEN cli_and(status) ELSE cli_or(status)
       /\ cli_prefixes_run(Tail(prefixes), status)

\* cli_execute_line on and / or in front of a command: the status of the
\* command when it ran, else ctx->rc, which is 0 where an or stopped.
cli_execute_prefixed(c, status, prefixes, command) ==
    IF cli_prefixes_run(prefixes, status)
    THEN Result(prefixed_arg(command.r.ctx, prefixes, command.cmd, TRUE), command.r.rc)
    ELSE Result(prefixed_arg(c, prefixes, command.cmd, FALSE), status)

PrefixLists == {<<"and">>, <<"or">>, <<"and", "or">>, <<"or", "and">>}

CliPrefixed ==
    /\ running
    /\ \E prefixes \in PrefixLists, command \in Commands :
         Execute(Head(prefixes), cli_execute_prefixed(Ctx, rc, prefixes, command))

InitSession ==
    /\ bits \in {32, 64}
    /\ target = NoTarget
    /\ breaks = 0
    /\ stopped = FALSE
    /\ addr_size = 4
    /\ hits = NoHits
    /\ running = TRUE
    /\ mem = [a \in Addrs |-> 0]
    /\ rc = 0
    /\ last = [cmd |-> "none", calls |-> <<>>, arg |-> NoArg]

Init == InitExpr /\ InitSession

Next ==
    \/ CliAttach \/ CliBreak \/ CliClear \/ CliContinue \/ CliDetach \/ CliEval
    \/ CliExplain \/ CliFilter \/ CliList \/ CliPeek \/ CliPoke \/ CliPrefixed \/ CliQuit \/ CliSearch

\* The session, and the expression subsystem on its own.
Spec == Init /\ [][Next]_vars
SpecExpr == Init /\ [][NextExpr]_vars

(***************************************************************************)
(* The properties checked.                                                 *)
(***************************************************************************)
CountCalls(calls, fn) == Cardinality({i \in 1..Len(calls) : calls[i].fn = fn})
LeaseCommands == {"eval", "explain", "poke", "list", "attach"}

\* C1: a command that takes a break lease (eval, explain, poke, list, the
\* region count of attach) calls ramfuck_continue as often as
\* ramfuck_break on every path, the failing ones included; the break count
\* it leaves is the one it found when it took the lease, and a target that
\* was stopped then is stopped afterwards.
C1_LeaseBalanced ==
    last.cmd \in LeaseCommands =>
        /\ CountCalls(last.calls, "ramfuck_break") = CountCalls(last.calls, "ramfuck_continue")
        /\ \A i \in 1..Len(last.calls) :
              last.calls[i].fn = "ramfuck_break" =>
                 /\ breaks = last.calls[i].breaks
                 /\ (last.calls[i].breaks > 0 /\ last.calls[i].stopped => stopped)

\* explain of an expression with a dereference whose evaluation fails, on a
\* target that the user has stopped.
C1_Witness ==
    /\ last.cmd = "explain" /\ rc = 4
    /\ CountCalls(last.calls, "ramfuck_break") = 1
    /\ last.calls[1].breaks = 1
    /\ breaks = 1 /\ stopped

\* C2: the div and mod handlers of every integer type fail on a right
\* operand equal to zero, without dividing; the division of a float by
\* zero fails; the evaluation of 1 / 0 fails and gives no value.
C2_DivisionByZeroFails ==
    /\ (/\ call.fn = "binary" /\ call.op \in {"div", "mod"}
        /\ IsInt(call.op1.type) /\ value_is_zero(call.op2, call.u))
          => call.res = Failed
    /\ (/\ call.fn = "binary" /\ call.op = "div"
        /\ IsFpu(call.op1.type) /\ value_is_zero(call.op2, call.u))
          => call.res = Failed
    /\ (call.fn = "explain" /\ call.in = <<IntTok(1), Tok("LEX_DIV"), IntTok(0)>>)
          => call.e = Failed

\* C3: on operands of type f32 or f64 the handlers of %, &, ^, |, <<, >>
\* and ~ fail and give no value: none computes on integers.
C3_FloatModuloAndBitwiseFail ==
    /\ (/\ call.fn = "binary" /\ IsFpu(call.op1.type)
        /\ call.op \in {"mod"} \cup BitOps \cup ShiftOps)
          => call.res = Failed
    /\ (call.fn = "unary" /\ IsFpu(call.op1.type) /\ call.op = "compl")
          => call.res = Failed

\* C4: after a call of parse_expression that reports errors, the output
\* of the caller refers to no tree, live or freed.
C4_NoTreeWithErrors ==
    (call.fn = "parse_expression" /\ call.res.errors > 0) => call.res.pout = Null

\* C5: for a closed expression whose evaluation succeeds, the evaluation
\* of the optimized tree gives the same type and the same bytes; explain
\* returns 0 only then.
C5_OptimizedTreeEvaluatesTheSame ==
    (call.fn = "explain" /\ call.e.ret = 1) =>
        /\ call.e2.ret = 1
        /\ call.e2.out.type = call.e.out.type
        /\ call.e2.out.data = call.e.out.data
        /\ call.rc = 0

\* higher(A, B) in the words of the claim: a floating type over an integer
\* type, else the wider type, else the unsigned one.
Higher(A, B) ==
    IF IsFpu(A) # IsFpu(B) THEN (IF IsFpu(A) THEN A ELSE B)
    ELSE IF value_type_sizeof(A) # value_type_sizeof(B)
    THEN (IF value_type_sizeof(A) > value_type_sizeof(B) THEN A ELSE B)
    ELSE IF A \in SignedTypes THEN B ELSE A

\* C6: the node that the parser builds for a op b, a of type A, b of type
\* B and op one of + - * /, has the type higher(A, B); higher is
\* symmetric and higher(A, A) = A.
C6_ArithmeticNodeType ==
    /\ \A A \in ScalarTypes, B \in ScalarTypes :
          Higher(A, B) = Higher(B, A) /\ Higher(A, A) = A
    /\ \A A \in ScalarTypes, B \in ScalarTypes,
          op \in {"LEX_ADD", "LEX_SUB", "LEX_MUL", "LEX_DIV"} :
          (/\ call.fn = "parse_expression" /\ call.symtab
           /\ call.in = VarBinary(A, op, B))
             => /\ call.res.errors = 0
                /\ call.res.pout.node_type = lex_to_ast_type(op)
                /\ call.res.pout.value_type = Higher(A, B)

\* The parse of vs64 / vf32: a node of type f32.
C6_Witness ==
    /\ call.fn = "parse_expression" /\ call.symtab
    /\ call.in = VarBinary(S64, "LEX_DIV", F32)
    /\ call.res.errors = 0
    /\ call.res.pout.value_type = F32

\* C7: the node of a comparison (< <= > >= == !=) of operands of any two
\* numeric types has the type s32, and the handler of every type for
\* these operators returns a value tagged s32 that is 0 or 1.
C7_ComparisonIsS32 ==
    /\ \A A \in ScalarTypes, B \in ScalarTypes,
          op \in {"LEX_LT", "LEX_LE", "LEX_GT", "LEX_GE", "LEX_EQ", "LEX_NEQ"} :
          (/\ call.fn = "parse_expression" /\ call.symtab
           /\ call.in = VarBinary(A, op, B))
             => /\ call.res.errors = 0
                /\ call.res.pout.node_type = lex_to_ast_type(op)
                /\ call.res.pout.value_type = S32
    /\ (call.fn = "binary" /\ call.op \in RelOps)
          => /\ call.res.ret = 1
             /\ call.res.out.type = S32
             /\ call.res.out.data \in {Bytes(4, 0), Bytes(4, 1)}

\* u32_lt on 0 and 1: the value 1 tagged s32.
C7_Witness ==
    /\ call.fn = "binary" /\ call.op = "lt"
    /\ call.op1 = Value(U32, Bytes(4, 0))
    /\ call.op2 = Value(U32, Bytes(4, 1))
    /\ call.res = Ok(S32, Bytes(4, 1))

\* C8: the handlers of add, sub, mul, div and neg of every type T return a
\* value tagged T on operands of type T, and a shift handler a value with
\* the tag of its left operand.
C8_HandlerKeepsOperandType ==
    /\ (/\ call.fn = "binary" /\ call.op \in {"add", "sub", "mul", "div"} \cup ShiftOps
        /\ call.res.ret = 1)
          => call.res.out.type = call.op1.type
    /\ (call.fn = "unary" /\ call.op = "neg" /\ call.res.ret = 1)
          => call.res.out.type = call.op1.type

\* C9: the parser accepts ! on an operand of every numeric type, the node
\* has the type s32, and the not handler of every type returns a value
\* tagged s32.
C9_LogicalNotIsS32 ==
    /\ \A T \in ScalarTypes :
          (/\ call.fn = "parse_expression" /\ call.symtab
           /\ call.in = <<Tok("LEX_NOT"), Ident(VarName(T))>>)
             => /\ call.res.errors = 0
                /\ call.res.pout.node_type = "AST_NOT"
                /\ call.res.pout.value_type = S32
    /\ (call.fn = "unary" /\ call.op = "not")
          => call.res.ret = 1 /\ call.res.out.type = S32

\* C10: (X) is a cast exactly when X is one of the ten type names,
\* character for character; for any other identifier, a proper prefix of
\* a type name and the empty substring included,
\* value_type_from_substring returns 0 and (X) is an expression in
\* parentheses.
TypeNames == {TypeName(t) : t \in ScalarTypes}
C10_CastOnlyOnTypeNames ==
    /\ call.fn = "value_type_from_substring"
          => (call.res # VOID <=> SubSeq(call.str, 1, call.len) \in TypeNames)
    /\ \A n \in Names :
          (call.fn = "parse_expression" /\ call.in = <<LP, Ident(n), RP, IntTok(1)>>)
             => IF n \in TypeNames
                THEN /\ call.res.errors = 0
                     /\ call.res.pout.node_type = "AST_CAST"
                     /\ call.res.pout.value_type = value_type_from_string(n)
                ELSE call.res.errors > 0

\* s is H with some of its entries left out: the entries of s are entries
\* of H, each taken once, in the order of H.
IsSubsequence(s, H) ==
    \E f \in [1..Len(s) -> 1..Len(H)] :
        /\ \A i \in 1..Len(s) : s[i] = H[f[i]]
        /\ \A i \in 1..Len(s), j \in 1..Len(s) : i < j => f[i] < f[j]

C12_ParseFailureChangesNothing ==
    [][(last'.arg.kind = "parse")
          => /\ last'.cmd \in {"search", "filter", "poke", "eval"}
             /\ rc' # 0
             /\ hits' = hits
             /\ mem' = mem]_vars

\* A poke of a hit whose value expression does not parse.
C12_Witness ==
    /\ last.cmd = "poke" /\ last.arg.kind = "parse" /\ rc = 11
    /\ hits # NoHits

\* C13: in a && b with a zero and in a || b with a not zero, b is not
\* evaluated: a failure of b, a division by zero, does not make the
\* expression fail.  explain of a && 1 / 0 and of a || 1 / 0 with such an a
\* gives the truth value of a for the tree and for the optimized tree.
C13_ShortCircuit ==
    \A a \in {0, 1}, op \in {"LEX_AND_COND", "LEX_OR_COND"} :
        (/\ call.fn = "explain" /\ call.in = CondInput(a, op, 0)
         /\ (a = 0) = (op = "LEX_AND_COND"))
           => /\ call.e = Ok(S32, Bytes(4, a))
              /\ call.e2 = Ok(S32, Bytes(4, a))
              /\ call.rc = 0

\* The place of a hit in a scan: the index of its region in the enumeration
\* of the target, then its address.
RegionIndex(a) ==
    CHOOSE i \in 1..Len(target_regions(target)) :
        /\ target_regions(target)[i].start <= a
        /\ a < target_regions(target)[i].start + target_regions(target)[i].size

ScanBefore(h1, h2) ==
    \/ RegionIndex(h1.addr) < RegionIndex(h2.addr)
    \/ RegionIndex(h1.addr) = RegionIndex(h2.addr) /\ h1.addr < h2.addr

\* C14: the hits of a search are in increasing order of address within a
\* region and in the order of the enumeration across regions, so that no
\* address is twice in the list; the same search run again on the same
\* snapshot of the target gives the same list.
C14_SearchOrder ==
    /\ []((last.cmd = "search" /\ rc = 0) =>
            \A i \in 1..Len(hits), j \in 1..Len(hits) :
                i < j => /\ ScanBefore(hits[i], hits[j])
                         /\ hits[i].addr # hits[j].addr)
    /\ [][(/\ last.cmd = "search" /\ rc = 0
           /\ last'.cmd = "search" /\ rc' = 0
           /\ last'.arg = last.arg /\ target' = target /\ mem' = mem)
             => hits' = hits]_vars

\* A scan of the target that enumerates its high region first: two hits,
\* the one of the high region first.
C14_Witness ==
    /\ last.cmd = "search" /\ rc = 0 /\ target = "pid2"
    /\ Len(hits) = 2 /\ hits[1].addr > hits[2].addr

\* The literal node of the integer n.
IntNode(n) == ast_value_new(S32, Value(S32, Bytes(4, n)))

\* C15: 1 + 2 * 3 is the sum of 1 and of the product of 2 and 3, its
\* literals are nodes of type s32 and so are the product and the sum; its
\* evaluation gives 7 of type s32.
C15_SumOfProduct ==
    /\ (call.fn = "parse_expression" /\ call.in = SumOfProduct)
          => /\ call.res.errors = 0
             /\ call.res.pout =
                    ast_binop_new("AST_ADD", S32, IntNode(1),
                                  ast_binop_new("AST_MUL", S32, IntNode(2), IntNode(3)))
    /\ (call.fn = "explain" /\ call.in = SumOfProduct)
          => call.e = Ok(S32, Bytes(4, 7))

\* explain of 1 + 2 * 3: the value 7.
C15_Witness ==
    /\ call.fn = "explain" /\ call.in = SumOfProduct
    /\ call.e.ret = 1 /\ call.e.out = Value(S32, Bytes(4, 7))

\* C16: after an attach that succeeds the session is in 64-bit address
\* mode exactly when a region of the target has start + size above the
\* largest 32-bit value, wherever the region is in the enumeration.  (A
\* start is counted from 2^32: start + size > UINT32_MAX when the sum of
\* the two numbers is above -1.)
C16_AddressMode ==
    (last.cmd = "attach" /\ rc = 0) =>
        (addr_size = 8 <=>
            \E i \in 1..Len(last.arg.regions) :
                last.arg.regions[i].start + last.arg.regions[i].size > -1)

\* C16, amended: on a build with 64-bit addresses, after an attach that
\* succeeds the session is in 64-bit address mode exactly when the last
\* byte of a region of the target, start + size - 1, is above the largest
\* 32-bit value, wherever the region is in the enumeration; on a build
\* with 32-bit addresses the session is in 32-bit mode.
C16_AddressModeOfLastByte ==
    (last.cmd = "attach" /\ rc = 0) =>
        (addr_size = 8 <=>
            (/\ bits = 64
             /\ \E i \in 1..Len(last.arg.regions) :
                   last.arg.regions[i].start + last.arg.regions[i].size - 1 > -1))

\* An attach to a target whose second region, and not its first, holds a
\* byte above the largest 32-bit value.
C16_Witness ==
    /\ last.cmd = "attach" /\ rc = 0 /\ bits = 64 /\ addr_size = 8
    /\ last.arg.regions = <<[start |-> -2, size |-> 1], [start |-> -1, size |-> 2]>>

\* C17: what ast_print writes for the tree of an expression that parses
\* can be parsed, and its tree is the tree of the expression: the same
\* node types, result types, literal values and variables.
C17_PrintParsesBack ==
    call.fn = "ast_print" => call.res.errors = 0 /\ call.res.pout = call.ast

\* C18: a command that fails returns a non-zero status: after a parse
\* error, an evaluation failure, or a failed read from or write to the
\* target, the status of the command is not 0.
C18_FailureIsNonZero ==
    last.arg.kind \in {"parse", "eval", "read", "write"} => rc # 0

\* The tree of (1 op1 2) op2 3 with every node of type s32.
LeftChain(op1, op2) ==
    ast_binop_new(lex_to_ast_type(op2), S32,
                  ast_binop_new(lex_to_ast_type(op1), S32, IntNode(1), IntNode(2)),
                  IntNode(3))

OneOperatorLevels == {{"LEX_EQ", "LEX_NEQ"}, {"LEX_LT", "LEX_GT", "LEX_LE", "LEX_GE"}}
ChainingLevels == Levels \ (OneOperatorLevels \cup {{"LEX_AND_COND", "LEX_OR_COND"}})

\* C19: equality and relational operators do not chain: 1 op1 2 op2 3 with
\* two equality operators, or two relational operators, ends with a parse
\* diagnostic and no tree; with two arithmetic, shift or bitwise operators
\* of one level it parses to (1 op1 2) op2 3.
C19_NoChaining ==
    call.fn = "parse_expression" =>
        /\ \A L \in OneOperatorLevels : \A op1 \in L, op2 \in L :
              call.in = Chain(op1, op2)
                  => call.res.errors > 0 /\ (call.res.pout = Null \/ call.res.freed)
        /\ \A L \in ChainingLevels : \A op1 \in L, op2 \in L :
              call.in = Chain(op1, op2)
                  => call.res.errors = 0 /\ call.res.pout = LeftChain(op1, op2)
        /\ call.in = EqualOnes
              => call.res.errors > 0 /\ (call.res.pout = Null \/ call.res.freed)

\* 1 == 1 == 1 has been parsed, with a diagnostic.
C19_Witness ==
    /\ call.fn = "parse_expression"
    /\ call.in = EqualOnes
    /\ call.res.errors > 0

\* a || b && c
OrThenAnd == Chain("LEX_OR_COND", "LEX_AND_COND")

\* C20: && and || are on one level and associate to the left: 1 || 2 && 3
\* is (1 || 2) && 3, and so for every pair of the two operators; a node of
\* either operator has the type s32 whatever the types of its operands.
C20_ConditionalLevel ==
    call.fn = "parse_expression" =>
        /\ \A op1, op2 \in {"LEX_AND_COND", "LEX_OR_COND"} :
              call.in = Chain(op1, op2)
                  => call.res.errors = 0 /\ call.res.pout = LeftChain(op1, op2)
        /\ \A A \in ScalarTypes, B \in ScalarTypes, op \in {"LEX_AND_COND", "LEX_OR_COND"} :
              (call.in = VarBinary(A, op, B) /\ call.symtab)
                  => /\ call.res.errors = 0
                     /\ call.res.pout.node_type = lex_to_ast_type(op)
                     /\ call.res.pout.value_type = S32
                     /\ call.res.pout.left.value_type = A
                     /\ call.res.pout.right.value_type = B

\* 1 || 2 && 3 has been parsed: the root is the &&.
C20_Witness ==
    /\ call.fn = "parse_expression" /\ call.in = OrThenAnd
    /\ call.res.errors = 0 /\ call.res.pout.node_type = "AST_AND_COND"
    /\ call.res.pout.left.node_type = "AST_OR_COND"

\* C21: when the pass of a filter keeps every hit of the current list, the
\* command returns 3 and installs no hit list: the hits of the session are
\* the ones it had.
C21_NothingToDo ==
    [][(/\ last'.cmd = "filter" /\ last'.arg.kind \in {"scan", "kept"}
        /\ \A i \in 1..Len(hits) : filter_keeps([mem |-> mem], last'.arg, hits[i]))
          => rc' = 3 /\ last'.arg.kind = "kept" /\ hits' = hits]_vars

\* A filter that kept its two hits.
C21_Witness ==
    /\ last.cmd = "filter" /\ last.arg.kind = "kept" /\ rc = 3
    /\ Len(hits) = 2

RECURSIVE Folds(_, _, _)
\* opt is the tree ast with each of its largest subtrees of literals whose
\* evaluation succeeds replaced by one literal of the declared type of the
\* subtree, and with its variables kept.
Folds(ast, opt, u) ==
    CASE ast.node_type = "AST_VAR" -> opt = ast
      [] ast_is_constant(ast) /\ ast_evaluate(ast, u).ret = 1 ->
            opt.node_type = "AST_VALUE" /\ opt.value_type = ast.value_type
      [] ast.node_type \in UnaryNodes \cup {"AST_CAST"} ->
            /\ opt.node_type = ast.node_type /\ opt.value_type = ast.value_type
            /\ Folds(ast.child, opt.child, u)
      [] OTHER ->
            /\ opt.node_type = ast.node_type /\ opt.value_type = ast.value_type
            /\ Folds(ast.left, opt.left, u) /\ Folds(ast.right, opt.right, u)

\* C22: ast_optimize turns a tree of literals whose evaluation succeeds
\* into one literal of the declared type of its root, and in a tree with
\* variables it replaces each largest subtree of literals by one literal of
\* the declared type of the subtree and keeps the variables.
C22_FoldsToDeclaredType ==
    (call.fn = "ast_optimize" /\ ~call.traps) => Folds(call.ast, call.opt, call.u)

RECURSIVE NodesOf(_, _)
\* The nodes of the tree whose root is the node this of the heap.
NodesOf(heap, this) ==
    {this} \cup UNION {NodesOf(heap, heap[this].kids[i]) : i \in 1..Len(heap[this].kids)}

\* C23: ast_optimize leaves the tree it is given as it was and returns a
\* tree that has no node of it; when explain has deleted the optimized tree
\* and then the tree, every node that was allocated has been freed once.
C23_NewTree ==
    (call.fn = "ast_optimize" /\ ~call.traps) =>
        /\ \A i \in 1..Len(call.objects.parsed.heap) :
              call.objects.opt.heap[i] = call.objects.parsed.heap[i]
        /\ ast_load(call.objects.opt.heap, call.objects.parsed.root) = call.ast
        /\ NodesOf(call.objects.opt.heap, call.objects.opt.root)
              \cap 1..Len(call.objects.parsed.heap) = {}
        /\ \A i \in 1..Len(call.objects.deleted) : call.objects.deleted[i].frees = 1

\* The tree of v + 1 * 2 has been optimized: the product was folded, with
\* the nodes made for it deleted, and the variable has a node of its own.
C23_Witness ==
    /\ call.fn = "ast_optimize" /\ ~call.traps
    /\ call.in = OpenInput(S32, "LEX_ADD")
    /\ Len(call.objects.parsed.heap) = 5
    /\ Len(call.objects.deleted) = 11
    /\ Cardinality(NodesOf(call.objects.opt.heap, call.objects.opt.root)) = 3

\* An identifier that names a type or, with a symbol table, a variable.
KnownName(name, symtab) ==
    \/ \E t \in ScalarTypes : TypeName(t) = name
    \/ symtab /\ symbol_table_nlookup(name) # VOID

\* The number of tokens of the type t in the input.
CountOf(in, t) == Cardinality({i \in 1..Len(in) : in[i].type = t})

\* A token that no expression starts or goes on with is left after an
\* expression that is complete: a proper prefix of the input parses and
\* the token after it is an operand or a parenthesis.
TokensLeft(in, symtab) ==
    \E k \in 1..(Len(in) - 1) :
        /\ in[k + 1].type \in {"LEX_INTEGER", "LEX_UINTEGER", "LEX_FLOATING_POINT",
                               "LEX_IDENTIFIER", "LEX_LEFT_PARENTHESE",
                               "LEX_RIGHT_PARENTHESE"}
        /\ CountOf(SubSeq(in, 1, k), "LEX_LEFT_PARENTHESE")
              = CountOf(SubSeq(in, 1, k), "LEX_RIGHT_PARENTHESE")
        /\ parse_expression(SubSeq(in, 1, k), symtab).errors = 0

\* a op b with an operator of integers and an operand that is a float.
TypeMismatch(in) ==
    \E A \in ScalarTypes, B \in ScalarTypes,
       op \in {"LEX_MOD", "LEX_AND", "LEX_XOR", "LEX_OR", "LEX_SHL", "LEX_SHR"} :
        in = VarBinary(A, op, B) /\ ~(IsInt(A) /\ IsInt(B))

\* C24: parse_expression returns 0 exactly when it leaves a tree: empty
\* input, tokens left after an expression, an unbalanced parenthesis, an
\* unknown identifier, a type mismatch and a lexer error anywhere in the
\* input give a count of at least 1 and no tree.
C24_ErrorCount ==
    call.fn = "parse_expression" =>
        /\ call.res.errors = 0 <=> (call.res.pout # Null /\ ~call.res.freed)
        /\ (\/ call.in = <<>>
            \/ TokensLeft(call.in, call.symtab)
            \/ CountOf(call.in, "LEX_LEFT_PARENTHESE") # CountOf(call.in, "LEX_RIGHT_PARENTHESE")
            \/ \E i \in 1..Len(call.in) :
                  call.in[i].type = "LEX_IDENTIFIER" /\ ~KnownName(call.in[i].name, call.symtab)
            \/ (call.symtab /\ TypeMismatch(call.in))
            \/ CountOf(call.in, "LEX_ERROR") > 0)
              => call.res.errors >= 1

\* C25: mem_region_find_addr returns a region that holds addr when a
\* region of the maps holds it, the first one included, and no region
\* otherwise; the file that was opened is closed once.
C25_FindAddr ==
    (call.fn = "mem_region_find_addr" /\ call.opened) =>
        /\ (\E i \in 1..Len(call.maps) : region_holds(call.maps[i], call.addr))
              => call.res.it /\ region_holds(call.res.region, call.addr)
        /\ (\A i \in 1..Len(call.maps) : ~region_holds(call.maps[i], call.addr))
              => ~call.res.it
        /\ call.res.closes = 1

\* The last command was a peek or a poke by hit index.
ByIndex(l) == l.cmd \in {"peek", "poke"} /\ "index0" \in DOMAIN l.arg

\* C26: with n hits, peek and poke by index select the slot i - 1 for the
\* index i of 1..n and the slot n + i for i of -n..-1; every other index,
\* 0 among them, and every index when there is no hit, is refused with a
\* status that is not 0 and before a read or a write of the target; the
\* slot is never outside 0..n-1.  A poke that succeeds writes at the
\* address of the selected hit.
C26_HitIndex ==
    /\ [](ByIndex(last) =>
            /\ (last.arg.index0 \in 1..Len(hits))
                  => last.arg.slot = last.arg.index0 - 1
            /\ (last.arg.index0 \in (0 - Len(hits))..(-1))
                  => last.arg.slot = Len(hits) + last.arg.index0
            /\ (last.arg.index0 \notin (1..Len(hits)) \cup ((0 - Len(hits))..(-1)))
                  => last.arg.slot = -1 /\ rc # 0 /\ last.arg.kind = "index"
            /\ last.arg.slot \in (-1)..(Len(hits) - 1))
    /\ [][ByIndex(last')
            => /\ last'.arg.slot = -1 => mem' = mem
               /\ (last'.cmd = "poke" /\ rc' = 0)
                     => mem'[hits[last'.arg.slot + 1].addr] = 1]_vars

\* A poke by the index -1 with two hits: the second hit is written.
C26_Witness ==
    /\ last.cmd = "poke" /\ rc = 0 /\ Len(hits) = 2
    /\ "index0" \in DOMAIN last.arg /\ last.arg.index0 = -1 /\ last.arg.slot = 1

\* The number of calls of target->run that the last command made on the
\* target it let go.
RunCalls(calls) == Cardinality({i \in 1..Len(calls) : calls[i].fn = "run"})

\* The step lets go of the target of the session: a detach or a quit that
\* succeeds, or an attach that replaces the target.
LetsGo ==
    /\ target # NoTarget
    /\ \/ last'.cmd = "detach" /\ rc' = 0
       \/ last'.cmd = "quit" /\ ~running'
       \/ last'.cmd = "attach" /\ rc' = 0

\* C27: when the session lets go of a target whose break count is not 0,
\* the target is told to run once, before anything else, and the break
\* count is 0 afterwards; with no target the break count is 0; an attach
\* that fails leaves the target and its break count as they were.
C27_Release ==
    /\ [](target = NoTarget => breaks = 0)
    /\ [][(LetsGo /\ breaks # 0)
            => /\ RunCalls(last'.calls) = 1
               /\ last'.calls[1].fn = "run" /\ last'.calls[1].breaks = breaks
               /\ breaks' = 0]_vars
    /\ [][(LetsGo /\ breaks = 0) => RunCalls(last'.calls) = 0 /\ breaks' = 0]_vars
    /\ [][(last'.cmd = "attach" /\ rc' # 0)
            => target' = target /\ breaks' = breaks /\ stopped' = stopped]_vars

\* An attach that replaced a target whose break count was not 0.
C27_Witness ==
    /\ last.cmd = "attach" /\ rc = 0 /\ target # NoTarget /\ breaks = 0
    /\ Len(last.calls) = 3 /\ last.calls[1].fn = "run" /\ last.calls[1].breaks > 0

\* The step is a line with the one word w, and or or, in front of a command.
Prefixed(w) == last'.arg.kind = "prefixed" /\ last'.arg.prefixes = <<w>>

\* C28: and runs its command only when the status of the command before
\* is 0 and else keeps that status; or runs its command only when the
\* status is not 0 and else leaves the status 0.  A command that did not
\* run changed nothing.
C28_AndOr ==
    /\ [][Prefixed("and")
            => /\ last'.arg.ran <=> rc = 0
               /\ ~last'.arg.ran => rc' = rc /\ rc' # 0]_vars
    /\ [][Prefixed("or")
            => /\ last'.arg.ran <=> rc # 0
               /\ ~last'.arg.ran => rc' = 0]_vars
    /\ [][(last'.arg.kind = "prefixed" /\ ~last'.arg.ran)
            => /\ last'.calls = <<>>
               /\ <<target, breaks, stopped, addr_size, hits, running, mem>>'
                     = <<target, breaks, stopped, addr_size, hits, running, mem>>]_vars
    /\ [][(Prefixed("and") /\ last'.arg.cmd = "clear" /\ rc' = 0) => hits' = NoHits]_vars

\* and clear after a command that failed, with hits: the hits are kept.
C28_Witness ==
    /\ last.arg.kind = "prefixed" /\ last.arg.prefixes = <<"and">>
    /\ last.arg.cmd = "clear" /\ ~last.arg.ran
    /\ rc # 0 /\ hits # NoHits

RECURSIVE Split(_, _)
\* The pieces of s between the characters sep.
Split(s, sep) ==
    IF \A i \in 1..Len(s) : s[i] # sep THEN <<s>>
    ELSE LET i == CHOOSE j \in 1..Len(s) : s[j] = sep /\ \A k \in 1..(j - 1) : s[k] # sep
         IN  <<SubSeq(s, 1, i - 1)>> \o Split(SubSeq(s, i + 1, Len(s)), sep)

\* The line without its comment.
Uncommented(line) == Split(line, "#")[1]

RECURSIVE CommandsOf(_)
\* The commands of the lines, in their order.
CommandsOf(lines) ==
    IF lines = <<>> THEN <<>>
    ELSE Split(Uncommented(Head(lines)), ";") \o CommandsOf(Tail(lines))

\* The commands up to the first q.
UpToQuit(cmds) ==
    IF \A i \in 1..Len(cmds) : cmds[i] # <<"q">> THEN cmds
    ELSE SubSeq(cmds, 1, CHOOSE j \in 1..Len(cmds) :
                            cmds[j] = <<"q">> /\ \A k \in 1..(j - 1) : cmds[k] # <<"q">>)

\* C29: cli_execute runs the commands of each line, split at ;, in their
\* order, nothing of what follows # on a line and nothing after a command
\* that quit; on return the buffer is what it was.
C29_Execute ==
    call.fn = "cli_execute" =>
        /\ call.res.lines = UpToQuit(CommandsOf(Split(call.in, "newline")))
        /\ call.res.buf = call.in

\* a;q and a line more: a and q ran, the second line did not.
C29_Witness ==
    /\ call.fn = "cli_execute"
    /\ call.in = <<"a", ";", "q", "newline", "a">>
    /\ call.res.lines = <<<<"a">>, <<"q">>>> /\ ~call.res.running

\* The integer v is, in nine bytes of two's complement.
Wide(v) == Extend(v.data, 9, v.type \in SignedTypes)

\* The integer v is, as a number (while it fits).
Num(v) == IF v.type \in SignedTypes THEN SNum(v.data) ELSE SNum(v.data \o <<0>>)

\* The types whose integers are numbers of the model.
SmallTypes == {S8, U8, S16, U16}

\* C30: a cast between integer types gives the value of the target type
\* that is congruent to the operand modulo 2^width of the target, and a
\* cast to a type that is at least as wide, and back, gives the operand.
C30_IntegerCast ==
    call.fn = "cast" =>
        /\ call.res.ret = 1
        /\ call.res.out.type = call.to
        /\ Len(call.res.out.data) = value_type_sizeof(call.to)
        /\ IsZeroBytes(SubSeq(SubBytes(Wide(call.res.out), Wide(call.op1)),
                              1, value_type_sizeof(call.to)))
        /\ (call.op1.type \in SmallTypes /\ call.to \in SmallTypes) =>
               (Num(call.res.out) - Num(call.op1))
                   % (IF value_type_sizeof(call.to) = 1 THEN 256 ELSE 65536) = 0
        /\ value_type_sizeof(call.to) >= value_type_sizeof(call.op1.type) =>
               call.back.ret = 1 /\ call.back.out = call.op1

\* The s8 -128 cast to u16 is 0xff80, and -128 again when cast back.
C30_Witness ==
    /\ call.fn = "cast"
    /\ call.op1 = Value(S8, <<128>>) /\ call.to = U16
    /\ call.res.out = Value(U16, <<128, 255>>)
    /\ call.back.out = Value(S8, <<128>>)
====
